---- MODULE Spec2Model ----
(***************************************************************************)
(* Kodus chat orchestration: the /api/chat request handler (POST), its     *)
(* SSE stream (createSSEStream), the preference commands                   *)
(* (detectPreferenceCommand, parsePreference) and the multi-agent          *)
(* orchestration with auto-save (orchestrateAI, processAutoSave).          *)
(*                                                                         *)
(* Text is modelled as a sequence of one-character strings.  Polish        *)
(* letters are written with ASCII names ("e-ogonek" is the letter e with   *)
(* ogonek); each name is ONE character of the text.  The texts used here   *)
(* contain no line terminators except where written as "\n"; the backtick  *)
(* is written "backtick".                                                  *)
(***************************************************************************)
EXTENDS Integers, Sequences, FiniteSets, TLC

(***************************************************************************)
(* Characters and strings (JavaScript String methods used by the source).  *)
(***************************************************************************)
LowerOf ==
  [c \in {"A","B","C","D","E","F","G","H","I","J","K","L","M","N","O","P","Q",
          "R","S","T","U","V","W","X","Y","Z","E-ogonek","Z-dot","S-acute",
          "O-acute","L-stroke"} |->
     CASE c = "A" -> "a" [] c = "B" -> "b" [] c = "C" -> "c" [] c = "D" -> "d"
       [] c = "E" -> "e" [] c = "F" -> "f" [] c = "G" -> "g" [] c = "H" -> "h"
       [] c = "I" -> "i" [] c = "J" -> "j" [] c = "K" -> "k" [] c = "L" -> "l"
       [] c = "M" -> "m" [] c = "N" -> "n" [] c = "O" -> "o" [] c = "P" -> "p"
       [] c = "Q" -> "q" [] c = "R" -> "r" [] c = "S" -> "s" [] c = "T" -> "t"
       [] c = "U" -> "u" [] c = "V" -> "v" [] c = "W" -> "w" [] c = "X" -> "x"
       [] c = "Y" -> "y" [] c = "Z" -> "z"
       [] c = "E-ogonek" -> "e-ogonek" [] c = "Z-dot" -> "z-dot"
       [] c = "S-acute" -> "s-acute" [] c = "O-acute" -> "o-acute"
       [] c = "L-stroke" -> "l-stroke"]

ToLowerChar(c) == IF c \in DOMAIN LowerOf THEN LowerOf[c] ELSE c

\* String.prototype.toLowerCase
ToLowerCase(s) == [i \in 1..Len(s) |-> ToLowerChar(s[i])]

\* the regular-expression class \s
IsSpace(c) == c \in {" ", "\t", "\n", "\r"}

\* String.prototype.trim
Trim(s) ==
  LET idx == {i \in 1..Len(s) : ~IsSpace(s[i])}
  IN IF idx = {} THEN <<>>
     ELSE LET lo == CHOOSE i \in idx : \A j \in idx : i <= j
              hi == CHOOSE i \in idx : \A j \in idx : i >= j
          IN SubSeq(s, lo, hi)

\* String.prototype.slice(0, n)
Slice0(s, n) == SubSeq(s, 1, IF Len(s) < n THEN Len(s) ELSE n)

\* case-sensitive occurrence of lit in s at position pos
StartsAt(s, pos, lit) ==
  /\ pos + Len(lit) - 1 <= Len(s)
  /\ \A k \in 1..Len(lit) : s[pos + k - 1] = lit[k]

\* String.prototype.includes
Includes(s, lit) == \E pos \in 1..(Len(s) + 1) : StartsAt(s, pos, lit)

\* String.prototype.replace(/\s+/g, '_'): every run of white space becomes
\* one underscore
RECURSIVE ReplaceSpaces(_)
ReplaceSpaces(s) ==
  IF s = <<>> THEN <<>>
  ELSE IF IsSpace(Head(s))
       THEN IF Len(s) > 1 /\ IsSpace(s[2])
            THEN ReplaceSpaces(Tail(s))
            ELSE <<"_">> \o ReplaceSpaces(Tail(s))
       ELSE <<Head(s)>> \o ReplaceSpaces(Tail(s))

(***************************************************************************)
(* Regular expressions, as the JavaScript engine matches them: a pattern   *)
(* is a sequence of nodes matched by backtracking, greedy quantifiers      *)
(* first, alternatives in written order, leftmost start position first.    *)
(* Every pattern of the source carries the flag i (case-insensitive).      *)
(*   alt : one of the literal strings alts (in order); optional when opt   *)
(*   rep : between min and max characters of class cls (max = -1: no       *)
(*         limit), greedy; a capture group when cap                        *)
(*   seq : the optional group (?:sub)? of a sub-pattern, greedy            *)
(***************************************************************************)
Lit(str)  == [k |-> "alt", alts |-> <<str>>, opt |-> FALSE, cls |-> "", min |-> 0, max |-> 0, cap |-> FALSE, sub |-> <<>>]
Alt(strs) == [k |-> "alt", alts |-> strs, opt |-> FALSE, cls |-> "", min |-> 0, max |-> 0, cap |-> FALSE, sub |-> <<>>]
Opt(strs) == [k |-> "alt", alts |-> strs, opt |-> TRUE, cls |-> "", min |-> 0, max |-> 0, cap |-> FALSE, sub |-> <<>>]
Rep(cls, min, max, cap) == [k |-> "rep", alts |-> <<>>, opt |-> FALSE, cls |-> cls, min |-> min, max |-> max, cap |-> cap, sub |-> <<>>]
OptSeq(sub) == [k |-> "seq", alts |-> <<>>, opt |-> TRUE, cls |-> "", min |-> 0, max |-> 0, cap |-> FALSE, sub |-> sub]
SpPlus  == Rep("space", 1, -1, FALSE)  \* \s+
SpStar  == Rep("space", 0, -1, FALSE)  \* \s*
CapPlus == Rep("dot", 1, -1, TRUE)     \* (.+)

InClass(cls, c) ==
  CASE cls = "space" -> IsSpace(c)
    [] cls = "dot" -> c \notin {"\n", "\r"}
    [] cls = "spacecolon" -> IsSpace(c) \/ c = ":"
    [] OTHER -> FALSE

\* lit occurs in s at pos, ignoring case
LitAt(s, pos, lit) ==
  /\ pos + Len(lit) - 1 <= Len(s)
  /\ \A k \in 1..Len(lit) : ToLowerChar(s[pos + k - 1]) = ToLowerChar(lit[k])

\* the longest run of characters of class cls in s from pos, at most max
RunLen(s, pos, cls, max) ==
  LET cand == {t \in 0..(Len(s) - pos + 1) :
                 /\ (max = -1 \/ t <= max)
                 /\ \A j \in 0..(t - 1) : InClass(cls, s[pos + j])}
  IN CHOOSE t \in cand : \A u \in cand : u <= t

NoMatch == [ok |-> FALSE, caps |-> <<>>]

RECURSIVE MatchFrom(_, _, _, _)
RECURSIVE TryAlts(_, _, _, _, _)
RECURSIVE TryRep(_, _, _, _, _)

\* match nodes n.. of re against s from position pos; caps are the captured
\* groups in order
MatchFrom(re, s, n, pos) ==
  IF n > Len(re) THEN [ok |-> TRUE, caps |-> <<>>]
  ELSE IF re[n].k = "alt" THEN TryAlts(re, s, n, pos, 1)
  ELSE IF re[n].k = "seq"
  THEN LET r == MatchFrom(re[n].sub \o SubSeq(re, n + 1, Len(re)), s, 1, pos)
       IN IF r.ok THEN r ELSE MatchFrom(re, s, n + 1, pos)
  ELSE TryRep(re, s, n, pos, RunLen(s, pos, re[n].cls, re[n].max))

TryAlts(re, s, n, pos, a) ==
  IF a > Len(re[n].alts)
  THEN IF re[n].opt THEN MatchFrom(re, s, n + 1, pos) ELSE NoMatch
  ELSE LET lit == re[n].alts[a]
           r == IF LitAt(s, pos, lit)
                THEN MatchFrom(re, s, n + 1, pos + Len(lit))
                ELSE NoMatch
       IN IF r.ok THEN r ELSE TryAlts(re, s, n, pos, a + 1)

TryRep(re, s, n, pos, t) ==
  IF t < re[n].min THEN NoMatch
  ELSE LET r == MatchFrom(re, s, n + 1, pos + t)
       IN IF r.ok
          THEN [r EXCEPT !.caps = IF re[n].cap
                                  THEN <<SubSeq(s, pos, pos + t - 1)>> \o @
                                  ELSE @]
          ELSE TryRep(re, s, n, pos, t - 1)

RECURSIVE ExecFrom(_, _, _)
ExecFrom(re, s, i) ==
  IF i > Len(s) + 1 THEN NoMatch
  ELSE LET r == MatchFrom(re, s, 1, i)
       IN IF r.ok THEN r ELSE ExecFrom(re, s, i + 1)

\* RegExp.prototype.exec / String.prototype.match (no g flag)
Exec(re, s) == ExecFrom(re, s, 1)
\* RegExp.prototype.test
Test(re, s) == Exec(re, s).ok

(***************************************************************************)
(* Preference commands.                                                    *)
(***************************************************************************)
PREFERENCE_PATTERNS ==
  [save     |-> <<Lit(<<"z", "a", "p", "a", "m", "i">>), Alt(<<<<"e">>, <<"e-ogonek">>>>), Lit(<<"t", "a", "j">>), SpPlus, CapPlus>>,
   saveAlt  |-> <<Lit(<<"z", "a", "p", "a", "m", "i", "e", "t", "a", "j">>), SpPlus, CapPlus>>,
   saveAlt2 |-> <<Lit(<<"z", "a", "p", "a", "m", "i", "e-ogonek", "t", "a", "j">>), SpPlus, CapPlus>>,
   saveEn   |-> <<Lit(<<"r", "e", "m", "e", "m", "b", "e", "r">>), SpPlus, Opt(<<<<"t", "h", "a", "t">>>>), SpStar, CapPlus>>,
   delete   |-> <<Lit(<<"z", "a", "p", "o", "m", "n", "i", "j">>), SpPlus, Opt(<<<<"o">>>>), SpStar, CapPlus>>,
   deleteEn |-> <<Lit(<<"f", "o", "r", "g", "e", "t">>), SpPlus, Opt(<<<<"a", "b", "o", "u", "t">>>>), SpStar, CapPlus>>,
   list     |-> <<Alt(<<<<"j", "a", "k", "i", "e">>, <<"p", "o", "k", "a", "z">>, <<"p", "o", "k", "a", "z-dot">>, <<"w", "y", "s", "w", "i", "e", "t", "l">>, <<"w", "y", "s-acute", "w", "i", "e", "t", "l">>,
                        <<"p", "o", "k", "a", "z">>, <<"w", "y", "s", "w", "i", "e", "t", "l">>, <<"p", "o", "k", "a", "z", "p", "r", "e", "f", "e", "r", "e", "n", "c", "j", "e">>>>),
                  SpStar, Opt(<<<<"m", "a", "s", "z">>>>), SpStar, Opt(<<<<"m", "o", "j", "e">>>>), SpStar,
                  Opt(<<<<"p", "r", "e", "f", "e", "r", "e", "n", "c", "j", "e">>>>)>>,
   listAlt  |-> <<Alt(<<<<"p", "o", "k", "a", "z">>, <<"p", "o", "k", "a", "z-dot">>, <<"p", "o", "k", "a", "z">>>>), SpStar, Lit(<<"p", "r", "e", "f", "e", "r", "e", "n", "c", "j", "e">>)>>,
   listEn   |-> <<Alt(<<<<"s", "h", "o", "w">>, <<"l", "i", "s", "t">>, <<"w", "h", "a", "t", " ", "a", "r", "e">>>>), SpStar, Opt(<<<<"m", "y">>>>), SpStar,
                  Lit(<<"p", "r", "e", "f", "e", "r", "e", "n", "c", "e", "s">>)>>]

\* a faulty variant of detectPreferenceCommand: the save patterns are tried
\* before the list patterns
detectSaveFirst(message) ==
  IF Test(PREFERENCE_PATTERNS.save, message)
  THEN [type |-> "save", content |-> Trim(Exec(PREFERENCE_PATTERNS.save, message).caps[1])]
  ELSE IF Test(PREFERENCE_PATTERNS.saveAlt, message)
  THEN [type |-> "save", content |-> Trim(Exec(PREFERENCE_PATTERNS.saveAlt, message).caps[1])]
  ELSE IF Test(PREFERENCE_PATTERNS.saveAlt2, message)
  THEN [type |-> "save", content |-> Trim(Exec(PREFERENCE_PATTERNS.saveAlt2, message).caps[1])]
  ELSE IF Test(PREFERENCE_PATTERNS.saveEn, message)
  THEN [type |-> "save", content |-> Trim(Exec(PREFERENCE_PATTERNS.saveEn, message).caps[1])]
  ELSE IF \/ Test(PREFERENCE_PATTERNS.list, message)
          \/ Test(PREFERENCE_PATTERNS.listAlt, message)
          \/ Test(PREFERENCE_PATTERNS.listEn, message)
  THEN [type |-> "list", content |-> <<>>]
  ELSE IF Test(PREFERENCE_PATTERNS.delete, message)
  THEN [type |-> "delete", content |-> Trim(Exec(PREFERENCE_PATTERNS.delete, message).caps[1])]
  ELSE IF Test(PREFERENCE_PATTERNS.deleteEn, message)
  THEN [type |-> "delete", content |-> Trim(Exec(PREFERENCE_PATTERNS.deleteEn, message).caps[1])]
  ELSE [type |-> "none", content |-> <<>>]

\* the command of a message; content is the trimmed capture
detectPreferenceCommand(message) ==
  IF \/ Test(PREFERENCE_PATTERNS.list, message)
     \/ Test(PREFERENCE_PATTERNS.listAlt, message)
     \/ Test(PREFERENCE_PATTERNS.listEn, message)
  THEN [type |-> "list", content |-> <<>>]
  ELSE IF Test(PREFERENCE_PATTERNS.save, message)
  THEN [type |-> "save", content |-> Trim(Exec(PREFERENCE_PATTERNS.save, message).caps[1])]
  ELSE IF Test(PREFERENCE_PATTERNS.saveAlt, message)
  THEN [type |-> "save", content |-> Trim(Exec(PREFERENCE_PATTERNS.saveAlt, message).caps[1])]
  ELSE IF Test(PREFERENCE_PATTERNS.saveAlt2, message)
  THEN [type |-> "save", content |-> Trim(Exec(PREFERENCE_PATTERNS.saveAlt2, message).caps[1])]
  ELSE IF Test(PREFERENCE_PATTERNS.saveEn, message)
  THEN [type |-> "save", content |-> Trim(Exec(PREFERENCE_PATTERNS.saveEn, message).caps[1])]
  ELSE IF Test(PREFERENCE_PATTERNS.delete, message)
  THEN [type |-> "delete", content |-> Trim(Exec(PREFERENCE_PATTERNS.delete, message).caps[1])]
  ELSE IF Test(PREFERENCE_PATTERNS.deleteEn, message)
  THEN [type |-> "delete", content |-> Trim(Exec(PREFERENCE_PATTERNS.deleteEn, message).caps[1])]
  ELSE [type |-> "none", content |-> <<>>]

\* the ordered rules of parsePreference
PreferenceRules ==
  <<[regex |-> <<Lit(<<"n", "a", "z", "y", "w", "a", "m">>), SpPlus, Lit(<<"s", "i">>), Alt(<<<<"e">>, <<"e-ogonek">>>>), SpPlus, CapPlus>>,
     category |-> "personal", keyPrefix |-> <<"i", "m", "i", "e-ogonek">>],
    [regex |-> <<Lit(<<"m", "a", "m">>), SpPlus, Lit(<<"n", "a">>), SpPlus, Lit(<<"i", "m", "i">>), Alt(<<<<"e">>, <<"e-ogonek">>>>), SpPlus, CapPlus>>,
     category |-> "personal", keyPrefix |-> <<"i", "m", "i", "e-ogonek">>],
    [regex |-> <<Lit(<<"j", "e", "s", "t", "e", "m">>), SpPlus, CapPlus>>,
     category |-> "personal", keyPrefix |-> <<"k", "i", "m", "_", "j", "e", "s", "t", "e", "m">>],
    [regex |-> <<Lit(<<"p", "r", "e", "f", "e", "r">>), Alt(<<<<"u">>, <<"e-ogonek">>>>), SpPlus, CapPlus>>,
     category |-> "general", keyPrefix |-> <<"p", "r", "e", "f", "e", "r", "u", "j", "e">>],
    [regex |-> <<Lit(<<"l", "u", "b", "i">>), Alt(<<<<"e-ogonek">>, <<"e">>>>), SpPlus, CapPlus>>,
     category |-> "general", keyPrefix |-> <<"l", "u", "b", "i">>],
    [regex |-> <<Lit(<<"u">>), Alt(<<<<"z">>, <<"z-dot">>>>), Lit(<<"y", "w", "a", "m">>), SpPlus, CapPlus>>,
     category |-> "tech", keyPrefix |-> <<"u", "z-dot", "y", "w", "a">>],
    [regex |-> <<Lit(<<"p", "r", "a", "c", "u", "j">>), Opt(<<<<"e">>, <<"e-ogonek">>>>), SpPlus, Opt(<<<<"w">>, <<"z">>, <<"n", "a", "d">>>>), SpStar, CapPlus>>,
     category |-> "work", keyPrefix |-> <<"p", "r", "a", "c", "u", "j", "e", "_", "z">>],
    [regex |-> <<Lit(<<"m">>), Alt(<<<<"o">>, <<"o-acute">>>>), Lit(<<"j">>), SpPlus, Opt(<<<<"u", "l", "u", "b", "i", "o", "n", "y">>, <<"p", "r", "e", "f", "e", "r", "o", "w", "a", "n", "y">>>>),
                 SpStar, CapPlus, SpPlus, Lit(<<"t", "o">>), SpPlus, CapPlus>>,
     category |-> "general", keyPrefix |-> <<"u", "l", "u", "b", "i", "o", "n", "y">>],
    [regex |-> <<Lit(<<"o", "d", "p", "o", "w", "i", "a", "d", "a", "j">>), SpPlus, Opt(<<<<"m", "i">>>>), SpPlus, Opt(<<<<"p", "o">>>>), SpStar, CapPlus>>,
     category |-> "communication", keyPrefix |-> <<"j", "e-ogonek", "z", "y", "k", "_", "o", "d", "p", "o", "w", "i", "e", "d", "z", "i">>],
    [regex |-> <<Lit(<<"m", "y">>), SpPlus, Opt(<<<<"p", "r", "e", "f", "e", "r", "r", "e", "d">>, <<"f", "a", "v", "o", "r", "i", "t", "e">>>>), SpStar, CapPlus, SpPlus,
                 Lit(<<"i", "s">>), SpPlus, CapPlus>>,
     category |-> "general", keyPrefix |-> <<"f", "a", "v", "o", "r", "i", "t", "e">>],
    [regex |-> <<Lit(<<"i">>), SpPlus, Alt(<<<<"p", "r", "e", "f", "e", "r">>, <<"l", "i", "k", "e">>, <<"u", "s", "e">>>>), SpPlus, CapPlus>>,
     category |-> "general", keyPrefix |-> <<"p", "r", "e", "f", "e", "r", "s">>],
    [regex |-> <<Lit(<<"m", "y">>), SpPlus, Lit(<<"n", "a", "m", "e">>), SpPlus, Lit(<<"i", "s">>), SpPlus, CapPlus>>,
     category |-> "personal", keyPrefix |-> <<"n", "a", "m", "e">>]>>

\* content.split(/\s+/): the maximal runs of non-space characters; a leading
\* or trailing separator yields an empty first or last word
RECURSIVE SplitSpaces(_, _)
SplitSpaces(s, cur) ==
  IF s = <<>> THEN <<cur>>
  ELSE IF IsSpace(Head(s))
       THEN IF Len(s) > 1 /\ IsSpace(s[2])
            THEN SplitSpaces(Tail(s), cur)
            ELSE <<cur>> \o SplitSpaces(Tail(s), <<>>)
       ELSE SplitSpaces(Tail(s), Append(cur, Head(s)))

\* Array.prototype.join('_')
RECURSIVE JoinUnderscore(_)
JoinUnderscore(ws) ==
  IF ws = <<>> THEN <<>>
  ELSE IF Len(ws) = 1 THEN ws[1]
  ELSE ws[1] \o <<"_">> \o JoinUnderscore(Tail(ws))

RECURSIVE parsePreferenceFrom(_, _)
parsePreferenceFrom(content, i) ==
  IF i > Len(PreferenceRules)
  THEN LET words == SplitSpaces(content, <<>>)
           n == IF Len(words) < 3 THEN Len(words) ELSE 3
       IN [category |-> "general",
           key |-> ToLowerCase(JoinUnderscore(SubSeq(words, 1, n))),
           value |-> content]
  ELSE LET m == Exec(PreferenceRules[i].regex, content)
       IN IF m.ok
          THEN IF Len(m.caps) >= 2
               THEN [category |-> PreferenceRules[i].category,
                     key |-> ReplaceSpaces(ToLowerCase(Trim(m.caps[1]))),
                     value |-> Trim(m.caps[2])]
               ELSE [category |-> PreferenceRules[i].category,
                     key |-> PreferenceRules[i].keyPrefix,
                     value |-> Trim(m.caps[1])]
          ELSE parsePreferenceFrom(content, i + 1)

\* a faulty variant of parsePreference: the rules before "i prefer" are not
\* tried
parsePreferenceLateRules(content) == parsePreferenceFrom(content, 11)

parsePreference(content) == parsePreferenceFrom(content, 1)

(***************************************************************************)
(* Generate / discuss classification (lib/constants).                      *)
(***************************************************************************)
GENERATE_TRIGGERS ==
  <<<<"o", "k", " ", "r", "o", "b", "i", "m", "y">>, <<"s", "t", "a", "r", "t">>, <<"z", "a", "c", "z", "y", "n", "a", "m", "y">>, <<"g", "e", "n", "e", "r", "u", "j">>, <<"d", "o", " ", "d", "z", "i", "e", "l-stroke", "a">>, <<"l", "e", "t", "'", "s", " ", "g", "o">>,
    <<"l", "e", "t", "s", " ", "g", "o">>, <<"b", "u", "d", "u", "j", "e", "m", "y">>, <<"k", "o", "d", "u", "j">>, <<"p", "i", "s", "z", " ", "k", "o", "d">>, <<"n", "a", "p", "i", "s", "z", " ", "k", "o", "d">>>>

\* a faulty variant of isGenerateAction: the message is not lower-cased
isGenerateActionExact(message) ==
  \E i \in 1..Len(GENERATE_TRIGGERS) : Includes(Trim(message), GENERATE_TRIGGERS[i])

isGenerateAction(message) ==
  LET lower == Trim(ToLowerCase(message))
  IN \E i \in 1..Len(GENERATE_TRIGGERS) : Includes(lower, GENERATE_TRIGGERS[i])

\* the instruction suffix of orchestrateAI, a fixed text written as one token
GenerateSuffix == <<"\n", "\n", "[TRYB GENEROWANIA - napisz pelny, dzialajacy kod]">>

enhancedMessage(message) ==
  IF isGenerateAction(message) THEN message \o GenerateSuffix ELSE message

(***************************************************************************)
(* Fixed texts of the handler, each written as one token.                  *)
(***************************************************************************)
GptFallback     == <<"Nie moglem przeanalizowac kodu w tym momencie.">>
GeminiFallback  == <<"Nie moglem przeanalizowac UI/UX w tym momencie.">>
SummaryFallback == <<"Podsumowujac feedback od GPT - moja oryginalna propozycja pozostaje aktualna.">>
FinalFallback   == <<"Uwzgledniajac feedback od GPT i Gemini - oto finalna wersja mojej propozycji.">>

(***************************************************************************)
(* Auto-save: pattern detection and extraction.                            *)
(***************************************************************************)
PatternTypes == <<"decision", "bug", "prompt", "rule", "tech", "feedback">>

AUTO_SAVE_PATTERNS ==
  [decision |-> <<Alt(<<<<"z", "d", "e", "c", "y", "d", "o", "w", "a", "l-stroke", "e", "m">>, <<"d", "e", "c", "y", "z", "j", "a">>, <<"w", "y", "b", "i", "e", "r", "a", "m", "y">>, <<"l", "e", "p", "s", "z", "y", "m", " ", "r", "o", "z", "w", "i", "a-ogonek", "z", "a", "n", "i", "e", "m">>,
                        <<"p", "o", "s", "t", "a", "n", "o", "w", "i", "l-stroke", "e", "m">>, <<"w", "y", "b", "i", "e", "r", "a", "m">>, <<"d", "e", "c", "y", "d", "u", "j", "e-ogonek">>, <<"b", "e-ogonek", "d", "z", "i", "e", "m", "y", " ", "u", "z-dot", "y", "w", "a", "c-acute">>,
                        <<"r", "e", "k", "o", "m", "e", "n", "d", "u", "j", "e">>, <<"r", "e", "k", "o", "m", "e", "n", "d", "u", "j", "e-ogonek">>, <<"z", "a", "l", "e", "c", "a", "m">>>>)>>,
   bug      |-> <<Alt(<<<<"b", "u", "g">>, <<"b", "l-stroke", "a-ogonek", "d">>, <<"f", "i", "x">>, <<"n", "a", "p", "r", "a", "w", "i", "l-stroke", "e", "m">>, <<"p", "r", "o", "b", "l", "e", "m", " ", "b", "y", "l-stroke">>, <<"r", "o", "z", "w", "i", "a-ogonek", "z", "a", "n", "i", "e">>,
                        <<"n", "a", "p", "r", "a", "w", "i", "o", "n", "o">>, <<"e", "r", "r", "o", "r">>, <<"i", "s", "s", "u", "e">>, <<"p", "o", "p", "r", "a", "w", "k", "a">>, <<"d", "e", "b", "u", "g", "o", "w", "a", "n", "i", "e">>>>)>>,
   prompt   |-> <<Alt(<<<<"p", "r", "o", "m", "p", "t", " ", "d", "l", "a">>, <<"w", "k", "l", "e", "j", " ", "d", "o", " ", "c", "l", "a", "u", "d", "e">>, <<"u", "z-dot", "y", "j", " ", "t", "e", "g", "o", " ", "p", "r", "o", "m", "p", "t", "u">>,
                        <<"s", "k", "o", "p", "i", "u", "j", " ", "t", "e", "n", " ", "p", "r", "o", "m", "p", "t">>, <<"p", "r", "o", "m", "p", "t", ":">>>>)>>,
   rule     |-> <<Alt(<<<<"z", "a", "w", "s", "z", "e", " ", "u", "z-dot", "y", "w", "a", "j">>, <<"n", "i", "g", "d", "y", " ", "n", "i", "e">>, <<"p", "r", "e", "f", "e", "r", "u", "j", "e">>, <<"p", "r", "e", "f", "e", "r", "u", "j", "e-ogonek">>, <<"z", "a", "s", "a", "d", "a">>,
                        <<"r", "e", "g", "u", "l-stroke", "a">>, <<"k", "o", "n", "w", "e", "n", "c", "j", "a">>, <<"s", "t", "a", "n", "d", "a", "r", "d">>, <<"w", "y", "m", "o-acute", "g">>>>)>>,
   tech     |-> <<Alt(<<<<"u", "z-dot", "y", "w", "a", "m">>, <<"s", "t", "a", "c", "k">>, <<"f", "r", "a", "m", "e", "w", "o", "r", "k">>, <<"b", "i", "b", "l", "i", "o", "t", "e", "k", "a">>, <<"t", "e", "c", "h", "n", "o", "l", "o", "g", "i", "a">>,
                        <<"j", "e-ogonek", "z", "y", "k", " ", "p", "r", "o", "g", "r", "a", "m", "o", "w", "a", "n", "i", "a">>, <<"b", "a", "z", "a", " ", "d", "a", "n", "y", "c", "h">>>>)>>,
   feedback |-> <<Alt(<<<<"[", "B", "U", "G", "]">>, <<"[", "O", "P", "T", "Y", "M", "A", "L", "I", "Z", "A", "C", "J", "A", "]">>, <<"[", "E", "D", "G", "E", " ", "C", "A", "S", "E", "]">>, <<"[", "B", "E", "S", "T", " ", "P", "R", "A", "C", "T", "I", "C", "E", "]">>,
                        <<"[", "U", "I", "]">>, <<"[", "U", "X", "]">>, <<"[", "A", "1", "1", "Y", "]">>>>)>>]

\* the detected pattern types, in the order of AUTO_SAVE_PATTERNS
RECURSIVE detectFrom(_, _)
detectFrom(content, i) ==
  IF i > Len(PatternTypes) THEN <<>>
  ELSE (IF Test(AUTO_SAVE_PATTERNS[PatternTypes[i]], content)
        THEN <<PatternTypes[i]>> ELSE <<>>) \o detectFrom(content, i + 1)

\* a faulty variant of detectAutoSavePatterns: the scan stops at the first
\* pattern that matches
detectFirstPattern(content) ==
  IF detectFrom(content, 1) = <<>> THEN <<>> ELSE <<Head(detectFrom(content, 1))>>

detectAutoSavePatterns(content) == detectFrom(content, 1)

\* s.split(/[.!?\n]/)[0]
SplitSentence(s) ==
  LET idx == {i \in 1..Len(s) : s[i] \in {".", "!", "?", "\n"}}
  IN IF idx = {} THEN s
     ELSE SubSeq(s, 1, (CHOOSE i \in idx : \A j \in idx : i <= j) - 1)

\* s.split(/\n\n/)[0]
SplitParagraph(s) ==
  LET idx == {i \in 1..(Len(s) - 1) : s[i] = "\n" /\ s[i + 1] = "\n"}
  IN IF idx = {} THEN s
     ELSE SubSeq(s, 1, (CHOOSE i \in idx : \A j \in idx : i <= j) - 1)

DecisionTitlePatterns ==
  <<<<Alt(<<<<"z", "d", "e", "c", "y", "d", "o", "w", "a", "l-stroke", "e", "m">>, <<"w", "y", "b", "i", "e", "r", "a", "m">>, <<"d", "e", "c", "y", "d", "u", "j", "e-ogonek">>>>), SpPlus,
      OptSeq(<<Lit(<<"s", "i", "e-ogonek">>), SpPlus>>), Opt(<<<<"n", "a">>, <<"z-dot", "e">>, <<"a", "b", "y">>>>), SpStar,
      Rep("dot", 10, 100, TRUE)>>,
    <<Alt(<<<<"l", "e", "p", "s", "z", "y", "m", " ", "r", "o", "z", "w", "i", "a-ogonek", "z", "a", "n", "i", "e", "m">>, <<"r", "e", "k", "o", "m", "e", "n", "d", "u", "j", "e">>, <<"r", "e", "k", "o", "m", "e", "n", "d", "u", "j", "e-ogonek">>, <<"z", "a", "l", "e", "c", "a", "m">>>>), SpPlus,
      Opt(<<<<"j", "e", "s", "t">>, <<"b", "e-ogonek", "d", "z", "i", "e">>>>), SpStar, Rep("dot", 10, 100, TRUE)>>,
    <<Alt(<<<<"b", "e-ogonek", "d", "z", "i", "e", "m", "y", " ", "u", "z-dot", "y", "w", "a", "c-acute">>, <<"u", "z-dot", "y", "w", "a", "m", "y">>>>), SpPlus, Rep("dot", 5, 50, TRUE)>>>>

DefaultDecisionTitle == <<"Decyzja architektoniczna">>

RECURSIVE extractDecisionTitleFrom(_, _)
extractDecisionTitleFrom(content, i) ==
  IF i > Len(DecisionTitlePatterns) THEN DefaultDecisionTitle
  ELSE LET m == Exec(DecisionTitlePatterns[i], content)
       IN IF m.ok THEN Slice0(Trim(SplitSentence(m.caps[1])), 100)
          ELSE extractDecisionTitleFrom(content, i + 1)

extractDecisionTitle(content) == extractDecisionTitleFrom(content, 1)

DefaultBugDescription == <<"Bug znaleziony przez AI">>

extractBugInfo(content) ==
  LET bugMatch == Exec(<<Alt(<<<<"b", "u", "g">>, <<"b", "l-stroke", "a-ogonek", "d">>, <<"p", "r", "o", "b", "l", "e", "m">>>>), Rep("spacecolon", 1, -1, FALSE),
                         Rep("dot", 10, 200, TRUE)>>, content)
      fixMatch == Exec(<<Alt(<<<<"f", "i", "x">>, <<"n", "a", "p", "r", "a", "w">>, <<"r", "o", "z", "w", "i", "a-ogonek", "z", "a", "n">>, <<"p", "o", "p", "r", "a", "w", "k">>>>),
                         Rep("spacecolon", 1, -1, FALSE), Rep("dot", 10, 300, TRUE)>>, content)
  IN [description |-> IF bugMatch.ok THEN Trim(SplitSentence(bugMatch.caps[1]))
                      ELSE DefaultBugDescription,
      solution |-> IF fixMatch.ok THEN Trim(SplitParagraph(fixMatch.caps[1]))
                   ELSE Slice0(content, 500)]

\* the first fenced block of content: three backticks, an optional tag prompt
\* or text, a line break, and the shortest text up to the next three backticks
Fence == <<"backtick", "backtick", "backtick">>

extractPrompt(content) ==
  LET starts == {i \in 1..Len(content) :
                   /\ StartsAt(content, i, Fence)
                   /\ \E tag \in {<<>>, <<"p", "r", "o", "m", "p", "t">>, <<"t", "e", "x", "t">>} :
                        /\ StartsAt(content, i + 3, tag \o <<"\n">>)
                        /\ \E e \in (i + 4 + Len(tag))..Len(content) : StartsAt(content, e, Fence)}
  IN IF starts = {} THEN [found |-> FALSE, target |-> "", promptContent |-> <<>>]
     ELSE LET i == CHOOSE x \in starts : \A y \in starts : x <= y
              \* alternatives in written order: prompt, text, then no tag
              tag == IF StartsAt(content, i + 3, <<"p", "r", "o", "m", "p", "t">> \o <<"\n">>)
                        /\ \E e \in (i + 10)..Len(content) : StartsAt(content, e, Fence)
                     THEN <<"p", "r", "o", "m", "p", "t">>
                     ELSE IF StartsAt(content, i + 3, <<"t", "e", "x", "t">> \o <<"\n">>)
                             /\ \E e \in (i + 8)..Len(content) : StartsAt(content, e, Fence)
                          THEN <<"t", "e", "x", "t">>
                          ELSE <<>>
              from == i + 4 + Len(tag)
              e == CHOOSE x \in from..Len(content) :
                     /\ StartsAt(content, x, Fence)
                     /\ \A y \in from..(x - 1) : ~StartsAt(content, y, Fence)
              lower == ToLowerCase(content)
          IN [found |-> TRUE,
              target |-> IF Includes(lower, <<"c", "o", "d", "e", "x">>) THEN "codex"
                         ELSE IF Includes(lower, <<"g", "e", "m", "i", "n", "i">>) THEN "gemini"
                         ELSE "claude_code",
              promptContent |-> Trim(SubSeq(content, from, e - 1))]

RulePatterns ==
  <<[regex |-> <<Alt(<<<<"z", "a", "w", "s", "z", "e", " ", "u", "z-dot", "y", "w", "a", "j">>, <<"z", "a", "w", "s", "z", "e", " ", "s", "t", "o", "s", "u", "j">>>>), SpPlus, Rep("dot", 5, 100, TRUE)>>,
     category |-> "code_style"],
    [regex |-> <<Alt(<<<<"n", "i", "g", "d", "y", " ", "n", "i", "e">>, <<"u", "n", "i", "k", "a", "j">>>>), SpPlus, Rep("dot", 5, 100, TRUE)>>,
     category |-> "code_style"],
    [regex |-> <<Alt(<<<<"k", "o", "n", "w", "e", "n", "c", "j", "a">>, <<"s", "t", "a", "n", "d", "a", "r", "d">>>>), Rep("spacecolon", 1, -1, FALSE),
                 Rep("dot", 10, 150, TRUE)>>,
     category |-> "naming"],
    [regex |-> <<Alt(<<<<"a", "r", "c", "h", "i", "t", "e", "k", "t", "u", "r", "a">>, <<"w", "z", "o", "r", "z", "e", "c">>>>), Rep("spacecolon", 1, -1, FALSE),
                 Rep("dot", 10, 150, TRUE)>>,
     category |-> "architecture"],
    [regex |-> <<Alt(<<<<"t", "e", "s", "t">>, <<"t", "e", "s", "t", "u", "j">>>>), Rep("spacecolon", 1, -1, FALSE),
                 Rep("dot", 10, 150, TRUE)>>,
     category |-> "testing"],
    [regex |-> <<Alt(<<<<"b", "e", "z", "p", "i", "e", "c", "z", "e", "n-acute", "s", "t", "w", "o">>, <<"b", "e", "z", "p", "i", "e", "c", "z", "e", "n", "s", "t", "w", "o">>, <<"s", "e", "c", "u", "r", "i", "t", "y">>>>),
                 Rep("spacecolon", 1, -1, FALSE), Rep("dot", 10, 150, TRUE)>>,
     category |-> "security"]>>

RECURSIVE extractProjectRuleFrom(_, _)
extractProjectRuleFrom(content, i) ==
  IF i > Len(RulePatterns) THEN [found |-> FALSE, rule |-> <<>>, category |-> ""]
  ELSE LET m == Exec(RulePatterns[i].regex, content)
       IN IF m.ok
          THEN [found |-> TRUE, rule |-> Trim(SplitSentence(m.caps[1])),
                category |-> RulePatterns[i].category]
          ELSE extractProjectRuleFrom(content, i + 1)

\* a faulty variant of extractProjectRule: a generic rule made of the start
\* of the text when no pattern of the list matches
extractProjectRuleGeneric(content) ==
  IF extractProjectRuleFrom(content, 1).found THEN extractProjectRuleFrom(content, 1)
  ELSE [found |-> TRUE, rule |-> Slice0(content, 500), category |-> "other"]

extractProjectRule(content) == extractProjectRuleFrom(content, 1)

\* the vocabulary of extractTechStack, in the order of its entries
techMap ==
  <<[tech |-> <<"r", "e", "a", "c", "t">>, category |-> "framework"], [tech |-> <<"n", "e", "x", "t", ".", "j", "s">>, category |-> "framework"],
    [tech |-> <<"n", "e", "x", "t", "j", "s">>, category |-> "framework"], [tech |-> <<"v", "u", "e">>, category |-> "framework"],
    [tech |-> <<"a", "n", "g", "u", "l", "a", "r">>, category |-> "framework"], [tech |-> <<"s", "v", "e", "l", "t", "e">>, category |-> "framework"],
    [tech |-> <<"n", "u", "x", "t">>, category |-> "framework"], [tech |-> <<"r", "e", "m", "i", "x">>, category |-> "framework"],
    [tech |-> <<"t", "a", "i", "l", "w", "i", "n", "d">>, category |-> "styling"], [tech |-> <<"c", "h", "a", "k", "r", "a">>, category |-> "styling"],
    [tech |-> <<"m", "u", "i">>, category |-> "styling"], [tech |-> <<"b", "o", "o", "t", "s", "t", "r", "a", "p">>, category |-> "styling"],
    [tech |-> <<"z", "u", "s", "t", "a", "n", "d">>, category |-> "state"], [tech |-> <<"r", "e", "d", "u", "x">>, category |-> "state"],
    [tech |-> <<"j", "o", "t", "a", "i">>, category |-> "state"], [tech |-> <<"r", "e", "c", "o", "i", "l">>, category |-> "state"],
    [tech |-> <<"m", "o", "b", "x">>, category |-> "state"],
    [tech |-> <<"a", "x", "i", "o", "s">>, category |-> "library"], [tech |-> <<"t", "a", "n", "s", "t", "a", "c", "k">>, category |-> "library"],
    [tech |-> <<"r", "e", "a", "c", "t", "-", "q", "u", "e", "r", "y">>, category |-> "library"], [tech |-> <<"s", "w", "r">>, category |-> "library"],
    [tech |-> <<"t", "y", "p", "e", "s", "c", "r", "i", "p", "t">>, category |-> "language"], [tech |-> <<"j", "a", "v", "a", "s", "c", "r", "i", "p", "t">>, category |-> "language"],
    [tech |-> <<"p", "y", "t", "h", "o", "n">>, category |-> "language"], [tech |-> <<"r", "u", "s", "t">>, category |-> "language"],
    [tech |-> <<"s", "u", "p", "a", "b", "a", "s", "e">>, category |-> "database"], [tech |-> <<"p", "o", "s", "t", "g", "r", "e", "s", "q", "l">>, category |-> "database"],
    [tech |-> <<"p", "o", "s", "t", "g", "r", "e", "s">>, category |-> "database"], [tech |-> <<"m", "o", "n", "g", "o", "d", "b">>, category |-> "database"],
    [tech |-> <<"m", "y", "s", "q", "l">>, category |-> "database"], [tech |-> <<"p", "r", "i", "s", "m", "a">>, category |-> "database"],
    [tech |-> <<"d", "r", "i", "z", "z", "l", "e">>, category |-> "database"],
    [tech |-> <<"j", "e", "s", "t">>, category |-> "testing"], [tech |-> <<"v", "i", "t", "e", "s", "t">>, category |-> "testing"],
    [tech |-> <<"c", "y", "p", "r", "e", "s", "s">>, category |-> "testing"], [tech |-> <<"p", "l", "a", "y", "w", "r", "i", "g", "h", "t">>, category |-> "testing"],
    [tech |-> <<"v", "i", "t", "e">>, category |-> "build"], [tech |-> <<"w", "e", "b", "p", "a", "c", "k">>, category |-> "build"],
    [tech |-> <<"t", "u", "r", "b", "o", "p", "a", "c", "k">>, category |-> "build"], [tech |-> <<"e", "s", "b", "u", "i", "l", "d">>, category |-> "build"]>>

\* the regular-expression class \w
IsWord(c) ==
  c \in {"a","b","c","d","e","f","g","h","i","j","k","l","m","n","o","p","q","r","s","t","u",
         "v","w","x","y","z","A","B","C","D","E","F","G","H","I","J","K","L","M","N","O","P",
         "Q","R","S","T","U","V","W","X","Y","Z","0","1","2","3","4","5","6","7","8","9","_"}

\* the assertion \b between positions pos - 1 and pos of s
Boundary(s, pos) ==
  (pos > 1 /\ pos - 1 <= Len(s) /\ IsWord(s[pos - 1])) # (pos <= Len(s) /\ IsWord(s[pos]))

\* new RegExp('\\b' + tech + '\\b', 'i').test(s); the dot of next.js is the
\* pattern . and matches any character except a line terminator
TechAt(s, pos, tech) ==
  /\ pos + Len(tech) - 1 <= Len(s)
  /\ \A k \in 1..Len(tech) :
       IF tech[k] = "." THEN InClass("dot", s[pos + k - 1])
       ELSE ToLowerChar(s[pos + k - 1]) = tech[k]

TechTest(tech, s) ==
  \E pos \in 1..Len(s) :
    Boundary(s, pos) /\ TechAt(s, pos, tech) /\ Boundary(s, pos + Len(tech))

\* tech.charAt(0).toUpperCase() + tech.slice(1)
Capitalize(tech) ==
  LET up == {u \in DOMAIN LowerOf : LowerOf[u] = tech[1]}
  IN IF up = {} THEN tech ELSE <<CHOOSE u \in up : TRUE>> \o Tail(tech)

RECURSIVE extractTechStackFrom(_, _)
extractTechStackFrom(combined, i) ==
  IF i > Len(techMap) THEN <<>>
  ELSE (IF TechTest(techMap[i].tech, combined)
        THEN <<[name |-> Capitalize(techMap[i].tech), category |-> techMap[i].category]>>
        ELSE <<>>) \o extractTechStackFrom(combined, i + 1)

extractTechStack(content, userMessage) ==
  extractTechStackFrom(userMessage \o <<" ">> \o content, 1)

\* a faulty variant of AutoSaveCandidates: the check of the project id is
\* missing, and a detected decision or bug is saved for the empty project
AutoSaveCandidatesNoProjectCheck(content, userMessage, llmSource, projectId, tokensUsed) ==
  LET detected == detectAutoSavePatterns(content)
      Has(t) == \E i \in 1..Len(detected) : detected[i] = t
  IN <<[table |-> "llm_responses", type |-> "feedback",
        row |-> [llm_source |-> llmSource, prompt_used |-> Slice0(userMessage, 1000),
                 response |-> Slice0(content, 5000), tokens_used |-> tokensUsed]]>>
     \o (IF Has("decision")
         THEN <<[table |-> "decisions", type |-> "decision",
                 row |-> [project_id |-> projectId, title |-> extractDecisionTitle(content),
                          description |-> Slice0(content, 500),
                          reason |-> <<"Wykryte automatycznie z odpowiedzi ", llmSource>>]]>>
         ELSE <<>>)
     \o (IF Has("bug")
         THEN <<[table |-> "bugs_history", type |-> "bug",
                 row |-> [project_id |-> projectId,
                          description |-> extractBugInfo(content).description,
                          solution |-> extractBugInfo(content).solution]]>>
         ELSE <<>>)

\* one save attempt of processAutoSave per candidate record, in call order
AutoSaveCandidates(content, userMessage, llmSource, projectId, tokensUsed) ==
  LET detected == detectAutoSavePatterns(content)
      llm == <<[table |-> "llm_responses", type |-> "feedback",
                row |-> [llm_source |-> llmSource, prompt_used |-> Slice0(userMessage, 1000),
                         response |-> Slice0(content, 5000), tokens_used |-> tokensUsed]]>>
      ForType(t) ==
        CASE t = "decision" ->
               <<[table |-> "decisions", type |-> "decision",
                  row |-> [project_id |-> projectId, title |-> extractDecisionTitle(content),
                           description |-> Slice0(content, 500),
                           reason |-> <<"Wykryte automatycznie z odpowiedzi ", llmSource>>]]>>
          [] t = "bug" ->
               <<[table |-> "bugs_history", type |-> "bug",
                  row |-> [project_id |-> projectId,
                           description |-> extractBugInfo(content).description,
                           solution |-> extractBugInfo(content).solution]]>>
          [] t = "prompt" ->
               IF extractPrompt(content).found
               THEN <<[table |-> "prompts", type |-> "prompt",
                       row |-> [name |-> <<"Prompt <date>">>,
                                llm_target |-> extractPrompt(content).target,
                                content |-> extractPrompt(content).promptContent]]>>
               ELSE <<>>
          [] t = "rule" ->
               IF extractProjectRule(content).found
               THEN <<[table |-> "project_rules", type |-> "rule",
                       row |-> [project_id |-> projectId,
                                rule |-> extractProjectRule(content).rule,
                                category |-> extractProjectRule(content).category]]>>
               ELSE <<>>
          [] t = "tech" ->
               LET items == extractTechStack(content, userMessage)
               IN [i \in 1..Len(items) |->
                     [table |-> "tech_stack", type |-> "tech",
                      row |-> [project_id |-> projectId, name |-> items[i].name,
                               category |-> items[i].category]]]
          [] OTHER -> <<>>
      RECURSIVE ForAll(_)
      ForAll(i) == IF i > Len(detected) THEN <<>> ELSE ForType(detected[i]) \o ForAll(i + 1)
  IN IF projectId = "" THEN llm ELSE llm \o ForAll(1)

\* the lookup of saveProjectRule (select('id').eq('project_id', ..).eq('rule',
\* ..).single()) and of saveTechStack (.. .ilike('name', ..).single(); no name
\* of techMap holds a wildcard of ilike): a record is returned, and the save
\* skipped, when exactly one row of the project matches
AlreadyStored(tbl, cand) ==
  CASE cand.table = "project_rules" ->
         Cardinality({i \in 1..Len(tbl.project_rules) :
                        /\ tbl.project_rules[i].project_id = cand.row.project_id
                        /\ tbl.project_rules[i].rule = cand.row.rule}) = 1
    [] cand.table = "tech_stack" ->
         Cardinality({i \in 1..Len(tbl.tech_stack) :
                        /\ tbl.tech_stack[i].project_id = cand.row.project_id
                        /\ ToLowerCase(tbl.tech_stack[i].name) = ToLowerCase(cand.row.name)}) = 1
    [] OTHER -> FALSE

\* the save attempts k.. of one processAutoSave call; the attempts in failed
\* return null (the gateway reports an error); the lookups of the attempts in
\* blind fail and return no data, their error is not read, and the insert
\* follows; the id of a row is its position in its table
RECURSIVE ApplySavesBlind(_, _, _, _, _, _)
ApplySavesBlind(cands, k, tbl, autoSaved, failed, blind) ==
  IF k > Len(cands) THEN [tables |-> tbl, autoSaved |-> autoSaved]
  ELSE LET c == cands[k]
       IN IF k \in failed \/ (k \notin blind /\ AlreadyStored(tbl, c))
          THEN ApplySavesBlind(cands, k + 1, tbl, autoSaved, failed, blind)
          ELSE ApplySavesBlind(cands, k + 1,
                               [tbl EXCEPT ![c.table] = Append(@, c.row)],
                               Append(autoSaved, [table |-> c.table,
                                                  id |-> Len(tbl[c.table]) + 1,
                                                  type |-> c.type]),
                               failed, blind)

\* a faulty variant of ApplySaves: the first failing save ends the call, and
\* the attempts after it are not made
RECURSIVE ApplySavesAborts(_, _, _, _, _)
ApplySavesAborts(cands, k, tbl, autoSaved, failed) ==
  IF k > Len(cands) \/ k \in failed THEN [tables |-> tbl, autoSaved |-> autoSaved]
  ELSE LET c == cands[k]
       IN IF AlreadyStored(tbl, c)
          THEN ApplySavesAborts(cands, k + 1, tbl, autoSaved, failed)
          ELSE ApplySavesAborts(cands, k + 1,
                                [tbl EXCEPT ![c.table] = Append(@, c.row)],
                                Append(autoSaved, [table |-> c.table,
                                                   id |-> Len(tbl[c.table]) + 1,
                                                   type |-> c.type]),
                                failed)

\* the save attempts k.. of one processAutoSave call whose lookups are all
\* answered
ApplySaves(cands, k, tbl, autoSaved, failed) ==
  ApplySavesBlind(cands, k, tbl, autoSaved, failed, {})

(***************************************************************************)
(* Bounds and inputs of the model.                                         *)
(***************************************************************************)
\* auto-save writes that fail within one request
MaxSaveFailures == 1

MsgDiscuss  == <<"h", "e", "l", "l", "o">>
MsgGenerate == <<"n", "a", "p", "i", "s", "z", " ", "k", "o", "d">>
MsgList     == <<"p", "o", "k", "a", "z", " ", "p", "r", "e", "f", "e", "r", "e", "n", "c", "j", "e">>
MsgSave     == <<"r", "e", "m", "e", "m", "b", "e", "r", " ", "t", "h", "a", "t", " ", "m", "y", " ", "n", "a", "m", "e", " ", "i", "s", " ", "P", "i", "o", "t", "r">>
MsgDelete   == <<"f", "o", "r", "g", "e", "t", " ", "a", "b", "o", "u", "t", " ", "n", "a", "m", "e">>
MsgDeleteNothing == <<"f", "o", "r", "g", "e", "t", " ", " ">>

\* messages with and without a trigger phrase of GENERATE_TRIGGERS: upper
\* case, inside a word, between blanks, and a phrase broken by a blank
MsgGenerateUpper == <<"N", "A", "P", "I", "S", "Z", " ", "K", "O", "D">>
MsgGenerateInside == <<"r", "e", "S", "t", "a", "r", "t", "s">>
MsgGeneratePadded == <<" ", "K", "o", "d", "u", "j", " ">>
MsgGenerateBroken == <<"s", "t", "a", "r", " ", "t">>
GenerateTexts ==
  {MsgDiscuss, MsgGenerate, MsgGenerateUpper, MsgGenerateInside, MsgGeneratePadded,
   MsgGenerateBroken}

\* request bodies: message may be missing (the empty text), mode may be missing
Messages == {<<>>, MsgDiscuss, MsgGenerate, MsgList, MsgSave, MsgDelete, MsgDeleteNothing}
Modes == {"", "solo", "duo", "team"}
\* conversation_id of the body: 0 when missing, else an existing conversation
ExistingConversation == 1
NewConversation == 2
ConversationIds == {0, ExistingConversation}
ProjectIds == {"", "p1"}

\* results of an agent call (AIResponseWithMetadata): content and tokens used
TextPlain == <<"o", "k">>
TextDecisionBug == <<"d", "e", "c", "y", "z", "j", "a", ":", " ", "b", "u", "g">>
AgentResults ==
  {[content |-> TextPlain, tokensUsed |-> 3], [content |-> TextDecisionBug, tokensUsed |-> 5]}

\* the records processAutoSave attempts to write, for every text an agent can
\* return and every request, computed once
LlmSources == {"claude", "gpt", "gemini"}
SaveCandidates ==
  [content \in {r.content : r \in AgentResults}, userMessage \in Messages \cup GenerateTexts,
   llmSource \in LlmSources, projectId \in ProjectIds,
   tokensUsed \in {r.tokensUsed : r \in AgentResults} |->
     AutoSaveCandidates(content, userMessage, llmSource, projectId, tokensUsed)]

\* processAutoSave: the tables after the call and the references it returns
processAutoSave(cands, tbl, failed) == ApplySaves(cands, 1, tbl, <<>>, failed)

(***************************************************************************)
(* Preference table (lib/supabase) and the replies of the commands.        *)
(***************************************************************************)
CategoryOrder == <<"communication", "general", "personal", "tech", "work">>

CategoryRank(c) == CHOOSE i \in 1..Len(CategoryOrder) : CategoryOrder[i] = c

\* the results getPreferences can return for a table: [] on an error,
\* otherwise the rows ordered by category (rows of one category in any order)
getPreferencesResults(rows) ==
  LET n == Len(rows)
      perms == {p \in [1..n -> 1..n] :
                  /\ \A i, j \in 1..n : i # j => p[i] # p[j]
                  /\ \A i, j \in 1..n :
                       i < j => CategoryRank(rows[p[i]].category) <= CategoryRank(rows[p[j]].category)}
  IN {<<>>} \cup {[i \in 1..n |-> rows[p[i]]] : p \in perms}

\* the lookup of savePreference, select('id').eq('key', key).single(): the
\* position of the row when exactly one row has the key; 0 (no data) when no
\* row or several rows have it, and when the lookup fails, whose error the
\* function does not read
savePreferenceLookups(rows, key) ==
  LET hits == {i \in 1..Len(rows) : rows[i].key = key}
  IN {0} \cup (IF Cardinality(hits) = 1 THEN hits ELSE {})

\* a faulty variant of savePreference: the row found is not updated, a row is
\* always inserted
savePreferenceInserts(rows, category, key, value, existing) ==
  Append(rows, [category |-> category, key |-> key, value |-> value])

\* savePreference: update the row the lookup found, insert a row when it
\* found none
savePreference(rows, category, key, value, existing) ==
  IF existing # 0
  THEN [i \in 1..Len(rows) |->
          IF i = existing THEN [rows[i] EXCEPT !.category = category, !.value = value]
          ELSE rows[i]]
  ELSE Append(rows, [category |-> category, key |-> key, value |-> value])

\* a faulty variant of deletePreference: the delete is not filtered by key
deletePreferenceAll(rows, key) == <<>>

\* deletePreference: delete().eq('key', key)
deletePreference(rows, key) == SelectSeq(rows, LAMBDA r : r.key # key)

CategoryName(category) ==
  CASE category = "general" -> "Ogolne"
    [] category = "tech" -> "Technologia"
    [] category = "work" -> "Praca"
    [] category = "communication" -> "Komunikacja"
    [] category = "ui" -> "Interfejs"
    [] category = "personal" -> "Osobiste"
    [] OTHER -> category

ListEmptyReply == <<"Nie mam jeszcze zapisanych zadnych preferencji.">>

\* formatPreferencesList: the groups in order of first appearance, the
\* entries of a group in list order
RECURSIVE formatGroups(_, _)
formatGroups(prefs, done) ==
  IF prefs = <<>> THEN <<>>
  ELSE LET cat == Head(prefs).category
       IN IF cat \in done THEN formatGroups(Tail(prefs), done)
          ELSE LET members == SelectSeq(prefs, LAMBDA p : p.category = cat)
                   RECURSIVE lines(_)
                   lines(ms) == IF ms = <<>> THEN <<>>
                                ELSE <<" ", " ", "*", " ">> \o Head(ms).key \o <<":", " ">>
                                     \o Head(ms).value \o <<"\n">> \o lines(Tail(ms))
               IN <<CategoryName(cat), ":", "\n">> \o lines(members) \o <<"\n">>
                  \o formatGroups(Tail(prefs), done \cup {cat})

\* a faulty variant of formatPreferencesList: only the first preference is
\* listed
formatPreferencesListFirst(prefs) ==
  IF Len(prefs) = 0 THEN ListEmptyReply
  ELSE <<"**Twoje zapisane preferencje:**", "\n", "\n">> \o formatGroups(<<prefs[1]>>, {})
       \o <<"\n", "Mozesz powiedziec \"zapomnij o [nazwa]\" aby usunac preferencje.">>

formatPreferencesList(prefs) ==
  IF Len(prefs) = 0 THEN ListEmptyReply
  ELSE <<"**Twoje zapisane preferencje:**", "\n", "\n">> \o formatGroups(prefs, {})
       \o <<"\n", "Mozesz powiedziec \"zapomnij o [nazwa]\" aby usunac preferencje.">>

SavedReply(parsed) ==
  <<"Zapamietalem!", "\n", "\n", "*", "*">> \o parsed.key \o <<"*", "*", ":", " ">>
  \o parsed.value \o <<"\n", "\n", "Bede o tym pamietac w przyszlych rozmowach.">>

SaveWhatReply == <<"Nie zrozumialem co mam zapamietac.">>

DeletedReply(pref) ==
  <<"Usunalem preferencje:", "\n", "\n", "*", "*">> \o pref.key \o <<"*", "*", ":", " ">>
  \o pref.value

NotFoundReply(content) ==
  <<"Nie znalazlem preferencji pasujacej do ", "\"">> \o content \o <<"\"", ".">>

DeleteWhatReply == <<"Nie zrozumialem co mam zapomniec.">>

\* a faulty variant of FindPrefToDelete: the first preference is taken whether
\* or not it matches
FindFirstPref(prefs, content) == IF prefs = <<>> THEN 0 ELSE 1

\* preferences.find(...) of the delete command: the position of the first
\* matching preference, 0 when there is none
FindPrefToDelete(prefs, content) ==
  LET keyToDelete == ReplaceSpaces(ToLowerCase(content))
      hits == {i \in 1..Len(prefs) :
                 \/ Includes(prefs[i].key, keyToDelete)
                 \/ Includes(ToLowerCase(prefs[i].value), ToLowerCase(content))}
  IN IF hits = {} THEN 0 ELSE CHOOSE i \in hits : \A j \in hits : i <= j

(***************************************************************************)
(* State.                                                                  *)
(***************************************************************************)
VARIABLES
  pc,             \* the await at which the request is suspended; "idle", "ended"
  faults,         \* auto-save writes that have failed so far
  req,            \* body of the current request
  response,       \* status of the Response POST returned (0: none yet)
  post,           \* locals of POST
  orch,           \* locals of orchestrateAI
  controller,     \* createSSEStream: "unset", "open", "null" (consumer cancelled)
  closed,         \* controller.close() has been called
  sent,           \* the events passed to sendEvent, in order
  stream,         \* the events enqueued on the stream, in order
  calls,          \* the agent calls made, in order
  preferences,    \* table preferences
  chat_messages,  \* rows inserted into chat_messages by the request
  conversations,  \* rows inserted into conversations by the request
  tables,         \* auto-save tables: the rows inserted by the request
  thrown,         \* the awaited calls that have thrown, in order
  overdue,        \* the request has run for longer than MAX_DURATION
  task,           \* status of the row of tasks the stream request names
  sse,            \* GET /api/stream: the closure of its stream and the stream
  runs,           \* the requests POST handles concurrently: the locals of each
  clients,        \* lib/ai: the client variable of each module, and the calls made
  ui              \* useChat: the state of the hook and of its sendMessage

\* the state of GET /api/stream and the wall clock, and of the requests
\* handled concurrently
streamVars == <<overdue, task, sse, runs, clients, ui>>
vars == <<pc, faults, req, response, post, orch, controller, closed, sent, stream, calls,
          preferences, chat_messages, conversations, tables, thrown, overdue, task, sse,
          runs, clients, ui>>

\* the requests handled concurrently, and the locals of one before it arrives
Requests == {"a", "b"}
InitRun ==
  [pc |-> "idle", message |-> <<>>, conversationId |-> 0, response |-> 0,
   parsed |-> [category |-> "", key |-> <<>>, value |-> <<>>], existing |-> 0, seen |-> 0,
   responseMessage |-> <<>>, result |-> [content |-> <<>>, tokensUsed |-> 0],
   autoSaved |-> <<>>, sent |-> <<>>, closed |-> FALSE, thrown |-> <<>>]
InitRuns == [r \in Requests |-> InitRun]

\* useChat when mounted: no message, nobody typing, not loading
InitUi ==
  [pc |-> "idle", mode |-> "", messages |-> <<>>, conversationId |-> 0,
   currentlyTyping |-> "null", typingQueue |-> <<>>, isLoading |-> FALSE, error |-> "",
   received |-> <<>>]

\* the modules of lib/ai when loaded: no client is built (null is 0), none
\* has been constructed, no run has called an agent
InitClients ==
  [anthropicClient |-> 0, openaiClient |-> 0, genaiClient |-> 0,
   constructed |-> [anthropicClient |-> 0, openaiClient |-> 0, genaiClient |-> 0],
   pending |-> [r \in Requests |-> "none"],
   used |-> [r \in Requests |-> <<>>]]

\* the closure of GET /api/stream before a request
InitSse ==
  [task_id |-> 0, isActive |-> FALSE, lastStatus |-> "null", heartbeat |-> "unset",
   read |-> "none", frames |-> <<>>, beats |-> 0, closed |-> FALSE, cancelled |-> FALSE]

NoRequest == [message |-> <<>>, mode |-> "", conversation_id |-> 0, project_id |-> ""]
NoCommand == [type |-> "none", content |-> <<>>]
NoPref == [category |-> "", key |-> <<>>, value |-> <<>>]
InitPost == [preferences |-> <<>>, conversationId |-> 0, preferenceCommand |-> NoCommand,
             parsed |-> NoPref, existing |-> 0, prefToDelete |-> NoPref,
             responseMessage |-> <<>>]
NoResult == [content |-> <<>>, tokensUsed |-> 0]
InitOrch == [claudeResponse |-> <<>>, gptResponse |-> <<>>, geminiResponse |-> <<>>,
             claudeSummary |-> <<>>, claudeFinal |-> <<>>, result |-> NoResult,
             totalTokens |-> 0, allAutoSaved |-> <<>>]

\* the preference tables a request can find: empty, or the row an earlier
\* "remember that my name is Piotr" stored
StoredName == [category |-> "general", key |-> <<"n", "a", "m", "e">>, value |-> <<"P", "i", "o", "t", "r">>]
InitialPreferences == {<<>>, <<StoredName>>}
\* the messages explored against a preference table: orchestrateAI only hands
\* the rows to the agent clients, whose outcomes are inputs here, so that only
\* the commands are explored against a table with rows
MessagesFor(rows) ==
  IF rows = <<>> THEN Messages ELSE Messages \ {MsgDiscuss, MsgGenerate}

Init ==
  /\ pc = "idle"
  /\ faults = 0
  /\ req = NoRequest
  /\ response = 0
  /\ post = InitPost
  /\ orch = InitOrch
  /\ controller = "unset"
  /\ closed = FALSE
  /\ sent = <<>>
  /\ stream = <<>>
  /\ calls = <<>>
  /\ preferences \in InitialPreferences
  /\ chat_messages = <<>>
  /\ conversations = <<>>
  /\ tables = [llm_responses |-> <<>>, decisions |-> <<>>, bugs_history |-> <<>>,
               prompts |-> <<>>, project_rules |-> <<>>, tech_stack |-> <<>>]
  /\ thrown = <<>>
  /\ overdue = FALSE
  /\ task = "none"
  /\ sse = InitSse
  /\ runs = InitRuns
  /\ clients = InitClients
  /\ ui = InitUi

(***************************************************************************)
(* The SSE stream (createSSEStream) and its events.                        *)
(***************************************************************************)
Event(type, sender, content) ==
  [type |-> type, sender |-> sender, content |-> content, id |-> 0, error |-> "",
   hasMetadata |-> FALSE, totalTokens |-> 0, autoSaved |-> <<>>]
ConversationIdEvent(id) == [Event("conversation_id", "", <<>>) EXCEPT !.id = id]
\* a faulty variant of TypingEvent: every stage announces claude
TypingEventClaude(sender) == Event("typing", "claude", <<>>)
TypingEvent(sender) == Event("typing", sender, <<>>)
MessageEvent(sender, content) == Event("message", sender, content)
ErrorEvent(error) == [Event("error", "", <<>>) EXCEPT !.error = error]
DoneEvent == Event("done", "", <<>>)
\* a faulty variant of DoneWithMetadata: the tokens of the last agent call only
DoneWithLastTokens(o) ==
  [Event("done", "", <<>>) EXCEPT !.hasMetadata = TRUE, !.totalTokens = o.result.tokensUsed,
                                  !.autoSaved = o.allAutoSaved]
DoneWithMetadata(o) ==
  [Event("done", "", <<>>) EXCEPT !.hasMetadata = TRUE, !.totalTokens = o.totalTokens,
                                  !.autoSaved = o.allAutoSaved]

\* an awaited call rejects
Throws(call) == thrown' = Append(thrown, call)

\* sendEvent for each event of es: enqueue while the controller is set and the
\* stream is not closed (enqueue on a closed stream throws, and is swallowed)
sendEvent(ctl, cl, es) ==
  /\ sent' = sent \o es
  /\ stream' = IF ctl = "open" /\ ~cl THEN stream \o es ELSE stream

\* close: controller.close() while the controller is set
close == closed' = (closed \/ controller = "open")

\* a faulty variant of Cancel: the cancellation ends the run
CancelAborts ==
  /\ response = 200
  /\ controller = "open"
  /\ controller' = "null"
  /\ pc' = "ended"
  /\ UNCHANGED <<faults, req, response, post, orch, closed, sent, stream, calls,
                 preferences, chat_messages, conversations, tables, thrown>>
  /\ UNCHANGED streamVars

\* the consumer of the returned Response cancels the stream: cancel() clears
\* the controller
Cancel ==
  /\ response = 200
  /\ controller = "open"
  /\ controller' = "null"
  /\ UNCHANGED <<pc, faults, req, response, post, orch, closed, sent, stream, calls,
                 preferences, chat_messages, conversations, tables, thrown>>
  /\ UNCHANGED streamVars

ChatRow(conversationId, sender, content) ==
  [conversation_id |-> conversationId, sender |-> sender, content |-> content]

(***************************************************************************)
(* POST /api/chat.  Each action is the code between two awaits: it resumes *)
(* with the outcome of the awaited call and runs to the next await.        *)
(***************************************************************************)
\* a faulty variant of POST: only the message is validated
POSTChecksMessage ==
  /\ pc = "idle"
  /\ \/ /\ req' = NoRequest
        /\ response' = 500
        /\ pc' = "ended"
        /\ Throws("request.json")
     \/ \E message \in MessagesFor(preferences), mode \in Modes,
           conversation_id \in ConversationIds, project_id \in ProjectIds :
          /\ req' = [message |-> message, mode |-> mode, conversation_id |-> conversation_id,
                     project_id |-> project_id]
          /\ IF message = <<>>
             THEN response' = 400 /\ pc' = "ended"
             ELSE response' = 0 /\ pc' = "getPreferences"
          /\ UNCHANGED thrown
  /\ UNCHANGED <<faults, post, orch, controller, closed, sent, stream, calls, preferences,
                 chat_messages, conversations, tables>>
  /\ UNCHANGED streamVars

\* the request arrives; the body is parsed and validated, then getPreferences
\* is awaited
POST ==
  /\ pc = "idle"
  /\ \/ \* request.json() throws
        /\ req' = NoRequest
        /\ response' = 500
        /\ pc' = "ended"
        /\ Throws("request.json")
     \/ \E message \in MessagesFor(preferences), mode \in Modes,
           conversation_id \in ConversationIds, project_id \in ProjectIds :
          /\ req' = [message |-> message, mode |-> mode, conversation_id |-> conversation_id,
                     project_id |-> project_id]
          /\ IF message = <<>> \/ mode = ""
             THEN response' = 400 /\ pc' = "ended"
             ELSE response' = 0 /\ pc' = "getPreferences"
          /\ UNCHANGED thrown
  /\ UNCHANGED <<faults, post, orch, controller, closed, sent, stream, calls, preferences,
                 chat_messages, conversations, tables>>
  /\ UNCHANGED streamVars

POST_getPreferences ==
  /\ pc = "getPreferences"
  /\ \E rows \in getPreferencesResults(preferences) :
       post' = [post EXCEPT !.preferences = rows, !.conversationId = req.conversation_id]
  /\ pc' = IF req.conversation_id = 0 THEN "createConversation" ELSE "saveUserMessage"
  /\ UNCHANGED <<faults, req, response, orch, controller, closed, sent, stream, calls,
                 preferences, chat_messages, conversations, tables, thrown>>
  /\ UNCHANGED streamVars

ConversationTitle(message) ==
  Slice0(message, 50) \o (IF Len(message) > 50 THEN <<".", ".", ".">> ELSE <<>>)

POST_createConversation ==
  /\ pc = "createConversation"
  /\ \/ /\ conversations' = Append(conversations,
                                   [id |-> NewConversation,
                                    title |-> ConversationTitle(req.message),
                                    mode |-> req.mode, project_id |-> req.project_id])
        /\ post' = [post EXCEPT !.conversationId = NewConversation]
        /\ pc' = "saveUserMessage"
        /\ UNCHANGED <<response, thrown>>
     \/ \* createConversation throws: the handler answers 500
        /\ response' = 500
        /\ pc' = "ended"
        /\ UNCHANGED <<conversations, post>>
        /\ Throws("createConversation")
  /\ UNCHANGED <<faults, req, orch, controller, closed, sent, stream, calls, preferences,
                 chat_messages, tables>>
  /\ UNCHANGED streamVars

\* the user message is written; then the command is detected, the stream is
\* created and conversation_id is sent; a command is handled up to its next
\* await
POST_saveChatMessage_user ==
  /\ pc = "saveUserMessage"
  /\ \/ \E cmd \in {detectPreferenceCommand(req.message)} :
        LET first == ConversationIdEvent(post.conversationId)
            Reply(text) ==
              /\ sendEvent("open", FALSE, <<first, MessageEvent("claude", text)>>)
              /\ post' = [post EXCEPT !.preferenceCommand = cmd, !.responseMessage = text]
              /\ pc' = "saveReply"
            Await(label, p) ==
              /\ sendEvent("open", FALSE, <<first>>)
              /\ post' = p
              /\ pc' = label
        IN /\ chat_messages' = Append(chat_messages,
                                      ChatRow(post.conversationId, "user", req.message))
           /\ controller' = "open"
           /\ CASE cmd.type = "list" -> Reply(formatPreferencesList(post.preferences))
                [] cmd.type = "save" ->
                     IF cmd.content # <<>>
                     THEN Await("savePreference",
                                [post EXCEPT !.preferenceCommand = cmd,
                                             !.parsed = parsePreference(cmd.content)])
                     ELSE Reply(SaveWhatReply)
                [] cmd.type = "delete" ->
                     IF cmd.content # <<>>
                     THEN LET i == FindPrefToDelete(post.preferences, cmd.content)
                          IN IF i # 0
                             THEN Await("deletePreference",
                                        [post EXCEPT !.preferenceCommand = cmd,
                                                     !.prefToDelete = post.preferences[i]])
                             ELSE Reply(NotFoundReply(cmd.content))
                     ELSE Reply(DeleteWhatReply)
                [] OTHER -> Await("getConversationHistory",
                                  [post EXCEPT !.preferenceCommand = cmd])
           /\ UNCHANGED <<response, thrown>>
     \/ \* saveChatMessage throws: the handler answers 500
        /\ response' = 500
        /\ pc' = "ended"
        /\ Throws("saveChatMessage")
        /\ UNCHANGED <<chat_messages, controller, sent, stream, post>>
  /\ UNCHANGED <<faults, req, orch, closed, calls, preferences, conversations, tables>>
  /\ UNCHANGED streamVars

\* a faulty variant of Call: the reviewer's feedback is not handed over
CallWithoutFeedback(fn, message, claudeResponse, gptResponse, geminiResponse) ==
  [fn |-> fn, message |-> message, claudeResponse |-> claudeResponse,
   gptResponse |-> <<>>, geminiResponse |-> geminiResponse]

\* the arguments of an agent call
Call(fn, message, claudeResponse, gptResponse, geminiResponse) ==
  [fn |-> fn, message |-> message, claudeResponse |-> claudeResponse,
   gptResponse |-> gptResponse, geminiResponse |-> geminiResponse]

\* a faulty variant of StartOrchestration: orchestrateAI announces the
\* conversation again
StartOrchestrationResendsId ==
  /\ sendEvent(controller, closed,
               <<ConversationIdEvent(post.conversationId), TypingEvent("claude")>>)
  /\ calls' = Append(calls, Call("callClaude", enhancedMessage(req.message), <<>>, <<>>, <<>>))
  /\ response' = 200
  /\ pc' = "callClaude"

\* POST calls orchestrateAI without awaiting it: the orchestration runs to its
\* first await (typing, callClaude), then POST returns the stream
StartOrchestration ==
  /\ sendEvent(controller, closed, <<TypingEvent("claude")>>)
  /\ calls' = Append(calls, Call("callClaude", enhancedMessage(req.message), <<>>, <<>>, <<>>))
  /\ response' = 200
  /\ pc' = "callClaude"

\* the catch of the command handler: error event, close, the stream is returned
CommandFailed(call) ==
  /\ Throws(call)
  /\ sendEvent(controller, closed, <<ErrorEvent("preferences")>>)
  /\ close
  /\ response' = 200
  /\ pc' = "ended"

POST_savePreference ==
  /\ pc = "savePreference"
  /\ \/ \E existing \in savePreferenceLookups(preferences, post.parsed.key) :
          /\ preferences' = savePreference(preferences, post.parsed.category,
                                           post.parsed.key, post.parsed.value, existing)
          /\ sendEvent(controller, closed, <<MessageEvent("claude", SavedReply(post.parsed))>>)
          /\ post' = [post EXCEPT !.existing = existing,
                                  !.responseMessage = SavedReply(post.parsed)]
          /\ pc' = "saveReply"
          /\ UNCHANGED <<response, closed, thrown>>
     \/ CommandFailed("savePreference") /\ UNCHANGED <<preferences, post>>
  /\ UNCHANGED <<faults, req, orch, controller, calls, chat_messages, conversations, tables>>
  /\ UNCHANGED streamVars

POST_deletePreference ==
  /\ pc = "deletePreference"
  /\ \/ /\ preferences' = deletePreference(preferences, post.prefToDelete.key)
        /\ sendEvent(controller, closed,
                     <<MessageEvent("claude", DeletedReply(post.prefToDelete))>>)
        /\ post' = [post EXCEPT !.responseMessage = DeletedReply(post.prefToDelete)]
        /\ pc' = "saveReply"
        /\ UNCHANGED <<response, closed, thrown>>
     \/ CommandFailed("deletePreference") /\ UNCHANGED <<preferences, post>>
  /\ UNCHANGED <<faults, req, orch, controller, calls, chat_messages, conversations, tables>>
  /\ UNCHANGED streamVars

\* a faulty variant of POST_saveChatMessage_reply: the command handler does not
\* return after done, and the handler goes on to the orchestration
ReplyFallsThrough ==
  /\ pc = "saveReply"
  /\ \/ /\ chat_messages' = Append(chat_messages,
                                   ChatRow(post.conversationId, "claude", post.responseMessage))
        /\ sent' = sent \o <<DoneEvent, TypingEvent("claude")>>
        /\ stream' = stream \o <<DoneEvent>>
        /\ close
        /\ calls' = Append(calls, Call("callClaude", enhancedMessage(req.message),
                                       <<>>, <<>>, <<>>))
        /\ response' = 200
        /\ pc' = "callClaude"
        /\ UNCHANGED thrown
     \/ CommandFailed("saveChatMessage") /\ UNCHANGED <<chat_messages, calls>>
  /\ UNCHANGED <<faults, req, post, orch, controller, preferences, conversations, tables>>
  /\ UNCHANGED streamVars

\* the reply is written, then done is sent, the stream closed and returned
POST_saveChatMessage_reply ==
  /\ pc = "saveReply"
  /\ \/ /\ chat_messages' = Append(chat_messages,
                                   ChatRow(post.conversationId, "claude", post.responseMessage))
        /\ sendEvent(controller, closed, <<DoneEvent>>)
        /\ close
        /\ response' = 200
        /\ pc' = "ended"
        /\ UNCHANGED thrown
     \/ CommandFailed("saveChatMessage") /\ UNCHANGED chat_messages
  /\ UNCHANGED <<faults, req, post, orch, controller, calls, preferences, conversations, tables>>
  /\ UNCHANGED streamVars

POST_getConversationHistory ==
  /\ pc = "getConversationHistory"
  /\ IF req.project_id = ""
     THEN StartOrchestration
     ELSE pc' = "getProjectById" /\ UNCHANGED <<sent, stream, calls, response>>
  /\ UNCHANGED <<faults, req, post, orch, controller, closed, preferences, chat_messages,
                 conversations, tables, thrown>>
  /\ UNCHANGED streamVars

POST_getProjectById ==
  /\ pc = "getProjectById"
  /\ \/ StartOrchestration /\ UNCHANGED thrown
     \/ \* getProjectById throws: the handler answers 500, the stream is dropped
        /\ response' = 500
        /\ pc' = "ended"
        /\ Throws("getProjectById")
        /\ UNCHANGED <<sent, stream, calls>>
  /\ UNCHANGED <<faults, req, post, orch, controller, closed, preferences, chat_messages,
                 conversations, tables>>
  /\ UNCHANGED streamVars

(***************************************************************************)
(* orchestrateAI.                                                          *)
(***************************************************************************)
\* the sets of failing save attempts a processAutoSave call with the attempts
\* cands can meet
FailureSets(cands) ==
  {f \in SUBSET (1..Len(cands)) : faults + Cardinality(f) <= MaxSaveFailures}

\* a faulty variant of OrchestrationFailed: the error is sent and the stream
\* is left open
OrchestrationFailedOpen(call) ==
  /\ Throws(call)
  /\ sendEvent(controller, closed, <<ErrorEvent("exception")>>)
  /\ UNCHANGED closed
  /\ pc' = "ended"

\* the outer catch of orchestrateAI: error event, close
OrchestrationFailed(call) ==
  /\ Throws(call)
  /\ sendEvent(controller, closed, <<ErrorEvent("exception")>>)
  /\ close
  /\ pc' = "ended"

\* the end of a run: done with the aggregate metadata, close
Finish ==
  /\ sendEvent(controller, closed, <<DoneWithMetadata(orch)>>)
  /\ close
  /\ pc' = "ended"

\* a faulty variant of ReviewerSettled: a failed reviewer contributes nothing,
\* no message is sent for it
ReviewerSkipped(fn, field, sender, fallback, autoSaveLabel, saveLabel) ==
  \/ \E r \in AgentResults :
       /\ orch' = [orch EXCEPT ![field] = r.content, !.totalTokens = @ + r.tokensUsed,
                               !.result = r]
       /\ pc' = autoSaveLabel
       /\ UNCHANGED <<sent, stream, thrown>>
  \/ /\ Throws(fn)
     /\ orch' = [orch EXCEPT ![field] = fallback]
     /\ pc' = saveLabel
     /\ UNCHANGED <<sent, stream>>

\* a faulty variant of ReviewerSettled: the stage has no try of its own, and a
\* reviewer's exception reaches the outer catch
ReviewerRethrows(fn, field, sender, fallback, autoSaveLabel, saveLabel) ==
  \/ \E r \in AgentResults :
       /\ orch' = [orch EXCEPT ![field] = r.content, !.totalTokens = @ + r.tokensUsed,
                               !.result = r]
       /\ pc' = autoSaveLabel
       /\ UNCHANGED <<sent, stream, thrown>>
  \/ /\ Throws(fn)
     /\ orch' = [orch EXCEPT ![field] = fallback]
     /\ sendEvent(controller, closed, <<ErrorEvent("exception")>>)
     /\ pc' = "ended"

\* an agent call settles inside a stage's try: on success the result is kept
\* and processAutoSave is awaited; on a throw the fallback text becomes the
\* stage's response, is sent as its message, and saveChatMessage is awaited
ReviewerSettled(fn, field, sender, fallback, autoSaveLabel, saveLabel) ==
  \/ \E r \in AgentResults :
       /\ orch' = [orch EXCEPT ![field] = r.content, !.totalTokens = @ + r.tokensUsed,
                               !.result = r]
       /\ pc' = autoSaveLabel
       /\ UNCHANGED <<sent, stream, thrown>>
  \/ /\ Throws(fn)
     /\ orch' = [orch EXCEPT ![field] = fallback]
     /\ sendEvent(controller, closed, <<MessageEvent(sender, fallback)>>)
     /\ pc' = saveLabel

\* a faulty variant of AutoSaveSettled: the references of the call replace
\* those gathered so far
AutoSaveReplaces(field, sender, saveLabel) ==
  \E cands \in {SaveCandidates[orch[field], req.message, sender, req.project_id,
                                 orch.result.tokensUsed]} :
  \E failed \in FailureSets(cands) :
  \E r \in {processAutoSave(cands, tables, failed)} :
       /\ tables' = r.tables
       /\ faults' = faults + Cardinality(failed)
       /\ orch' = [orch EXCEPT !.allAutoSaved = r.autoSaved]
       /\ sendEvent(controller, closed, <<MessageEvent(sender, orch[field])>>)
       /\ pc' = saveLabel
       /\ UNCHANGED thrown

\* processAutoSave settles: its references are accumulated, the stage's
\* message is sent and saveChatMessage is awaited
AutoSaveSettled(field, sender, saveLabel) ==
  \E cands \in {SaveCandidates[orch[field], req.message, sender, req.project_id,
                                 orch.result.tokensUsed]} :
  \E failed \in FailureSets(cands) :
  \E r \in {processAutoSave(cands, tables, failed)} :
       /\ tables' = r.tables
       /\ faults' = faults + Cardinality(failed)
       /\ orch' = [orch EXCEPT !.allAutoSaved = @ \o r.autoSaved]
       /\ sendEvent(controller, closed, <<MessageEvent(sender, orch[field])>>)
       /\ pc' = saveLabel
       /\ UNCHANGED thrown

\* a faulty variant of orchestrateAI_callClaude: a failure of the primary agent
\* is degraded like a reviewer's, and the run goes on
callClaudeDegrades ==
  /\ pc = "callClaude"
  /\ \/ \E r \in AgentResults :
          /\ orch' = [orch EXCEPT !.claudeResponse = r.content,
                                  !.totalTokens = @ + r.tokensUsed, !.result = r]
          /\ pc' = "processAutoSave_claude"
          /\ UNCHANGED <<sent, stream, closed, thrown>>
     \/ /\ Throws("callClaude")
        /\ orch' = [orch EXCEPT !.claudeResponse = FinalFallback]
        /\ sendEvent(controller, closed, <<MessageEvent("claude", FinalFallback)>>)
        /\ pc' = "saveChatMessage_claude"
        /\ UNCHANGED closed
  /\ UNCHANGED <<faults, req, response, post, controller, calls, preferences, chat_messages,
                 conversations, tables>>
  /\ UNCHANGED streamVars

\* a faulty variant of orchestrateAI_callClaude: the catch does not return, the
\* read of the missing result throws, and the outer catch reports a second
\* error
callClaudeNoReturn ==
  /\ pc = "callClaude"
  /\ \/ \E r \in AgentResults :
          /\ orch' = [orch EXCEPT !.claudeResponse = r.content,
                                  !.totalTokens = @ + r.tokensUsed, !.result = r]
          /\ pc' = "processAutoSave_claude"
          /\ UNCHANGED <<sent, stream, closed, thrown>>
     \/ /\ Throws("callClaude")
        /\ sent' = sent \o <<ErrorEvent("claude"), ErrorEvent("exception")>>
        /\ stream' = IF controller = "open" /\ ~closed
                      THEN Append(stream, ErrorEvent("claude")) ELSE stream
        /\ close
        /\ pc' = "ended"
        /\ UNCHANGED orch
  /\ UNCHANGED <<faults, req, response, post, controller, calls, preferences, chat_messages,
                 conversations, tables>>
  /\ UNCHANGED streamVars

\* 1. CLAUDE
orchestrateAI_callClaude ==
  /\ pc = "callClaude"
  /\ \/ \E r \in AgentResults :
          /\ orch' = [orch EXCEPT !.claudeResponse = r.content,
                                  !.totalTokens = @ + r.tokensUsed, !.result = r]
          /\ pc' = "processAutoSave_claude"
          /\ UNCHANGED <<sent, stream, closed, thrown>>
     \/ \* callClaude throws: error event, close, return
        /\ Throws("callClaude")
        /\ sendEvent(controller, closed, <<ErrorEvent("claude")>>)
        /\ close
        /\ pc' = "ended"
        /\ UNCHANGED orch
  /\ UNCHANGED <<faults, req, response, post, controller, calls, preferences, chat_messages,
                 conversations, tables>>
  /\ UNCHANGED streamVars

orchestrateAI_processAutoSave_claude ==
  /\ pc = "processAutoSave_claude"
  /\ AutoSaveSettled("claudeResponse", "claude", "saveChatMessage_claude")
  /\ UNCHANGED <<req, response, post, controller, closed, calls, preferences,
                 chat_messages, conversations>>
  /\ UNCHANGED streamVars

\* a faulty variant of orchestrateAI_saveChatMessage_claude: mode solo is not
\* told apart, the run goes on to the first reviewer
saveChatMessageClaudeNoSolo ==
  /\ pc = "saveChatMessage_claude"
  /\ \/ /\ chat_messages' = Append(chat_messages,
                                   ChatRow(post.conversationId, "claude", orch.claudeResponse))
        /\ UNCHANGED thrown
        /\ sendEvent(controller, closed, <<TypingEvent("gpt")>>)
        /\ calls' = Append(calls, Call("callGPT", req.message, orch.claudeResponse,
                                       <<>>, <<>>))
        /\ pc' = "callGPT"
        /\ UNCHANGED closed
     \/ OrchestrationFailed("saveChatMessage") /\ UNCHANGED <<chat_messages, calls>>
  /\ UNCHANGED <<faults, req, response, post, orch, controller, preferences, conversations,
                 tables>>
  /\ UNCHANGED streamVars

orchestrateAI_saveChatMessage_claude ==
  /\ pc = "saveChatMessage_claude"
  /\ \/ /\ chat_messages' = Append(chat_messages,
                                   ChatRow(post.conversationId, "claude", orch.claudeResponse))
        /\ UNCHANGED thrown
        /\ IF req.mode = "solo"
           THEN Finish /\ UNCHANGED calls
           ELSE \* 2. GPT
                /\ sendEvent(controller, closed, <<TypingEvent("gpt")>>)
                /\ calls' = Append(calls, Call("callGPT", req.message, orch.claudeResponse,
                                               <<>>, <<>>))
                /\ pc' = "callGPT"
                /\ UNCHANGED closed
     \/ OrchestrationFailed("saveChatMessage") /\ UNCHANGED <<chat_messages, calls>>
  /\ UNCHANGED <<faults, req, response, post, orch, controller, preferences, conversations,
                 tables>>
  /\ UNCHANGED streamVars

orchestrateAI_callGPT ==
  /\ pc = "callGPT"
  /\ ReviewerSettled("callGPT", "gptResponse", "gpt", GptFallback, "processAutoSave_gpt",
                     "saveChatMessage_gpt")
  /\ UNCHANGED <<faults, req, response, post, controller, closed, calls, preferences,
                 chat_messages, conversations, tables>>
  /\ UNCHANGED streamVars

orchestrateAI_processAutoSave_gpt ==
  /\ pc = "processAutoSave_gpt"
  /\ AutoSaveSettled("gptResponse", "gpt", "saveChatMessage_gpt")
  /\ UNCHANGED <<req, response, post, controller, closed, calls, preferences,
                 chat_messages, conversations>>
  /\ UNCHANGED streamVars

\* a faulty variant of orchestrateAI_saveChatMessage_gpt: the branch of mode
\* duo is missing, the second reviewer follows the first in every mode
saveChatMessageGptThenGemini ==
  /\ pc = "saveChatMessage_gpt"
  /\ \/ /\ chat_messages' = Append(chat_messages,
                                   ChatRow(post.conversationId, "gpt", orch.gptResponse))
        /\ UNCHANGED thrown
        /\ sendEvent(controller, closed, <<TypingEvent("gemini")>>)
        /\ calls' = Append(calls, Call("callGemini", req.message, orch.claudeResponse,
                                       orch.gptResponse, <<>>))
        /\ pc' = "callGemini"
        /\ UNCHANGED closed
     \/ OrchestrationFailed("saveChatMessage") /\ UNCHANGED <<chat_messages, calls>>
  /\ UNCHANGED <<faults, req, response, post, orch, controller, preferences, conversations,
                 tables>>
  /\ UNCHANGED streamVars

\* a faulty variant of orchestrateAI_saveChatMessage_gpt: the summary follows
\* the first reviewer in every mode
saveChatMessageGptAlwaysSummary ==
  /\ pc = "saveChatMessage_gpt"
  /\ \/ /\ chat_messages' = Append(chat_messages,
                                   ChatRow(post.conversationId, "gpt", orch.gptResponse))
        /\ UNCHANGED thrown
        /\ sendEvent(controller, closed, <<TypingEvent("claude")>>)
        /\ calls' = Append(calls, Call("callClaudeSummary", req.message,
                                       orch.claudeResponse, orch.gptResponse, <<>>))
        /\ pc' = "callClaudeSummary"
        /\ UNCHANGED closed
     \/ OrchestrationFailed("saveChatMessage") /\ UNCHANGED <<chat_messages, calls>>
  /\ UNCHANGED <<faults, req, response, post, orch, controller, preferences, conversations,
                 tables>>
  /\ UNCHANGED streamVars

orchestrateAI_saveChatMessage_gpt ==
  /\ pc = "saveChatMessage_gpt"
  /\ \/ /\ chat_messages' = Append(chat_messages,
                                   ChatRow(post.conversationId, "gpt", orch.gptResponse))
        /\ UNCHANGED thrown
        /\ IF req.mode = "duo"
           THEN /\ sendEvent(controller, closed, <<TypingEvent("claude")>>)
                /\ calls' = Append(calls, Call("callClaudeSummary", req.message,
                                               orch.claudeResponse, orch.gptResponse, <<>>))
                /\ pc' = "callClaudeSummary"
           ELSE \* 3. GEMINI
                /\ sendEvent(controller, closed, <<TypingEvent("gemini")>>)
                /\ calls' = Append(calls, Call("callGemini", req.message, orch.claudeResponse,
                                               orch.gptResponse, <<>>))
                /\ pc' = "callGemini"
        /\ UNCHANGED closed
     \/ OrchestrationFailed("saveChatMessage") /\ UNCHANGED <<chat_messages, calls>>
  /\ UNCHANGED <<faults, req, response, post, orch, controller, preferences, conversations,
                 tables>>
  /\ UNCHANGED streamVars

orchestrateAI_callClaudeSummary ==
  /\ pc = "callClaudeSummary"
  /\ ReviewerSettled("callClaudeSummary", "claudeSummary", "claude", SummaryFallback,
                     "processAutoSave_summary", "saveChatMessage_summary")
  /\ UNCHANGED <<faults, req, response, post, controller, closed, calls, preferences,
                 chat_messages, conversations, tables>>
  /\ UNCHANGED streamVars

orchestrateAI_processAutoSave_summary ==
  /\ pc = "processAutoSave_summary"
  /\ AutoSaveSettled("claudeSummary", "claude", "saveChatMessage_summary")
  /\ UNCHANGED <<req, response, post, controller, closed, calls, preferences,
                 chat_messages, conversations>>
  /\ UNCHANGED streamVars

\* a faulty variant of orchestrateAI_saveChatMessage_summary: the row written
\* for the summary holds the primary's first response
saveChatMessageSummaryStale ==
  /\ pc = "saveChatMessage_summary"
  /\ \/ /\ chat_messages' = Append(chat_messages,
                                   ChatRow(post.conversationId, "claude", orch.claudeResponse))
        /\ Finish
        /\ UNCHANGED thrown
     \/ OrchestrationFailed("saveChatMessage") /\ UNCHANGED chat_messages
  /\ UNCHANGED <<faults, req, response, post, orch, controller, calls, preferences,
                 conversations, tables>>
  /\ UNCHANGED streamVars

orchestrateAI_saveChatMessage_summary ==
  /\ pc = "saveChatMessage_summary"
  /\ \/ /\ chat_messages' = Append(chat_messages,
                                   ChatRow(post.conversationId, "claude", orch.claudeSummary))
        /\ Finish
        /\ UNCHANGED thrown
     \/ OrchestrationFailed("saveChatMessage") /\ UNCHANGED chat_messages
  /\ UNCHANGED <<faults, req, response, post, orch, controller, calls, preferences,
                 conversations, tables>>
  /\ UNCHANGED streamVars

orchestrateAI_callGemini ==
  /\ pc = "callGemini"
  /\ ReviewerSettled("callGemini", "geminiResponse", "gemini", GeminiFallback,
                     "processAutoSave_gemini", "saveChatMessage_gemini")
  /\ UNCHANGED <<faults, req, response, post, controller, closed, calls, preferences,
                 chat_messages, conversations, tables>>
  /\ UNCHANGED streamVars

orchestrateAI_processAutoSave_gemini ==
  /\ pc = "processAutoSave_gemini"
  /\ AutoSaveSettled("geminiResponse", "gemini", "saveChatMessage_gemini")
  /\ UNCHANGED <<req, response, post, controller, closed, calls, preferences,
                 chat_messages, conversations>>
  /\ UNCHANGED streamVars

\* a faulty variant of orchestrateAI_saveChatMessage_gemini: the final call
\* is handed the first reviewer's response in the place of the second's
saveChatMessageGeminiStaleInput ==
  /\ pc = "saveChatMessage_gemini"
  /\ \/ /\ chat_messages' = Append(chat_messages,
                                   ChatRow(post.conversationId, "gemini", orch.geminiResponse))
        /\ sendEvent(controller, closed, <<TypingEvent("claude")>>)
        /\ calls' = Append(calls, Call("callClaudeFinal", req.message, orch.claudeResponse,
                                       orch.gptResponse, orch.gptResponse))
        /\ pc' = "callClaudeFinal"
        /\ UNCHANGED <<closed, thrown>>
     \/ OrchestrationFailed("saveChatMessage") /\ UNCHANGED <<chat_messages, calls>>
  /\ UNCHANGED <<faults, req, response, post, orch, controller, preferences, conversations,
                 tables>>
  /\ UNCHANGED streamVars

orchestrateAI_saveChatMessage_gemini ==
  /\ pc = "saveChatMessage_gemini"
  /\ \/ \* 4. CLAUDE final
        /\ chat_messages' = Append(chat_messages,
                                   ChatRow(post.conversationId, "gemini", orch.geminiResponse))
        /\ sendEvent(controller, closed, <<TypingEvent("claude")>>)
        /\ calls' = Append(calls, Call("callClaudeFinal", req.message, orch.claudeResponse,
                                       orch.gptResponse, orch.geminiResponse))
        /\ pc' = "callClaudeFinal"
        /\ UNCHANGED <<closed, thrown>>
     \/ OrchestrationFailed("saveChatMessage") /\ UNCHANGED <<chat_messages, calls>>
  /\ UNCHANGED <<faults, req, response, post, orch, controller, preferences, conversations,
                 tables>>
  /\ UNCHANGED streamVars

\* a faulty variant of orchestrateAI_callClaudeFinal: a failure of the final
\* call is fatal like that of the first call of the primary agent
callClaudeFinalFatal ==
  /\ pc = "callClaudeFinal"
  /\ \/ \E r \in AgentResults :
          /\ orch' = [orch EXCEPT !.claudeFinal = r.content,
                                  !.totalTokens = @ + r.tokensUsed, !.result = r]
          /\ pc' = "processAutoSave_final"
          /\ UNCHANGED <<sent, stream, closed, thrown>>
     \/ /\ Throws("callClaudeFinal")
        /\ sendEvent(controller, closed, <<ErrorEvent("claude")>>)
        /\ close
        /\ pc' = "ended"
        /\ UNCHANGED orch
  /\ UNCHANGED <<faults, req, response, post, controller, calls, preferences,
                 chat_messages, conversations, tables>>
  /\ UNCHANGED streamVars

orchestrateAI_callClaudeFinal ==
  /\ pc = "callClaudeFinal"
  /\ ReviewerSettled("callClaudeFinal", "claudeFinal", "claude", FinalFallback,
                     "processAutoSave_final", "saveChatMessage_final")
  /\ UNCHANGED <<faults, req, response, post, controller, closed, calls, preferences,
                 chat_messages, conversations, tables>>
  /\ UNCHANGED streamVars

orchestrateAI_processAutoSave_final ==
  /\ pc = "processAutoSave_final"
  /\ AutoSaveSettled("claudeFinal", "claude", "saveChatMessage_final")
  /\ UNCHANGED <<req, response, post, controller, closed, calls, preferences,
                 chat_messages, conversations>>
  /\ UNCHANGED streamVars

orchestrateAI_saveChatMessage_final ==
  /\ pc = "saveChatMessage_final"
  /\ \/ /\ chat_messages' = Append(chat_messages,
                                   ChatRow(post.conversationId, "claude", orch.claudeFinal))
        /\ Finish
        /\ UNCHANGED thrown
     \/ OrchestrationFailed("saveChatMessage") /\ UNCHANGED chat_messages
  /\ UNCHANGED <<faults, req, response, post, orch, controller, calls, preferences,
                 conversations, tables>>
  /\ UNCHANGED streamVars

\* an awaited call of the request settles
Settle ==
  \/ POST_getPreferences
  \/ POST_createConversation
  \/ POST_saveChatMessage_user
  \/ POST_savePreference
  \/ POST_deletePreference
  \/ POST_saveChatMessage_reply
  \/ POST_getConversationHistory
  \/ POST_getProjectById
  \/ orchestrateAI_callClaude
  \/ orchestrateAI_processAutoSave_claude
  \/ orchestrateAI_saveChatMessage_claude
  \/ orchestrateAI_callGPT
  \/ orchestrateAI_processAutoSave_gpt
  \/ orchestrateAI_saveChatMessage_gpt
  \/ orchestrateAI_callClaudeSummary
  \/ orchestrateAI_processAutoSave_summary
  \/ orchestrateAI_saveChatMessage_summary
  \/ orchestrateAI_callGemini
  \/ orchestrateAI_processAutoSave_gemini
  \/ orchestrateAI_saveChatMessage_gemini
  \/ orchestrateAI_callClaudeFinal
  \/ orchestrateAI_processAutoSave_final
  \/ orchestrateAI_saveChatMessage_final

Next ==
  \/ POST
  \/ Settle
  \/ Cancel

Spec == Init /\ [][Next]_vars

(***************************************************************************)
(* Properties of the event stream and of the orchestration.  Events are    *)
(* counted where sendEvent is called (sent); stream holds those of them    *)
(* that reached the consumer.                                              *)
(***************************************************************************)
Last(es) == es[Len(es)]
IsPrefix(a, b) == Len(a) <= Len(b) /\ a = SubSeq(b, 1, Len(a))
Emitted(type) == SelectSeq(sent, LAMBDA e : e.type = type)
MessageEvents == Emitted("message")
Senders(es) == [i \in 1..Len(es) |-> es[i].sender]
Types(es) == [i \in 1..Len(es) |-> es[i].type]
CalledFns == [i \in 1..Len(calls) |-> calls[i].fn]
Threw(call) == \E i \in 1..Len(thrown) : thrown[i] = call
Persisted(sender, content) ==
  \E i \in 1..Len(chat_messages) :
    chat_messages[i] = ChatRow(post.conversationId, sender, content)
\* orchestrateAI has been invoked for the request
OrchestrationRun == calls # <<>>
RunEnded == pc = "ended"
EndsWithDone ==
  /\ sent # <<>>
  /\ Last(sent).type = "done"
  /\ Len(Emitted("done")) = 1
  /\ Emitted("error") = <<>>
EndsWithError ==
  /\ sent # <<>>
  /\ Last(sent).type = "error"
  /\ Len(Emitted("error")) = 1
  /\ Emitted("done") = <<>>

TeamSenders == <<"claude", "gpt", "gemini", "claude">>
TeamCalls == <<"callClaude", "callGPT", "callGemini", "callClaudeFinal">>
DuoSenders == <<"claude", "gpt", "claude">>
DuoCalls == <<"callClaude", "callGPT", "callClaudeSummary">>

SummaryReceivesFeedback ==
  \A i \in 1..Len(calls) :
    calls[i].fn = "callClaudeSummary" =>
      /\ i = 3
      /\ Len(MessageEvents) >= 2
      /\ calls[i].claudeResponse = MessageEvents[1].content
      /\ calls[i].gptResponse = MessageEvents[2].content
      /\ calls[i].message = req.message

PrimaryFailureIsFatal ==
  Threw("callClaude") =>
    /\ RunEnded
    /\ sent = <<ConversationIdEvent(post.conversationId), TypingEvent("claude"),
                ErrorEvent("claude")>>
    /\ CalledFns = <<"callClaude">>
    /\ chat_messages = <<ChatRow(post.conversationId, "user", req.message)>>
    /\ controller = "open" => closed

\* the primary call threw in a team run
PrimaryFailureIsFatalWitness ==
  /\ Threw("callClaude")
  /\ req.mode = "team"
  /\ Last(sent) = ErrorEvent("claude")

ReviewerThrew == Threw("callGPT") \/ Threw("callGemini")
\* the apology of each failed reviewer was sent as that reviewer's message
FallbackEmitted ==
  /\ Threw("callGPT") =>
       Len(MessageEvents) >= 2 /\ MessageEvents[2] = MessageEvent("gpt", GptFallback)
  /\ Threw("callGemini") =>
       Len(MessageEvents) >= 3 /\ MessageEvents[3] = MessageEvent("gemini", GeminiFallback)
FallbackPersisted ==
  /\ Threw("callGPT") => Persisted("gpt", GptFallback)
  /\ Threw("callGemini") => Persisted("gemini", GeminiFallback)
AllStagesCalled == CalledFns = IF req.mode = "duo" THEN DuoCalls ELSE TeamCalls

TerminalLast(es) ==
  \A i \in 1..Len(es) : es[i].type \in {"done", "error"} => i = Len(es)

\* C6: on every stream, of an orchestration run or of a command reply, done
\* and error are terminal: at most one of them is emitted, at most once, it is
\* the last event, and the request has ended when it is emitted; the same
\* holds of the events that reached the consumer
TerminalEvents ==
  /\ TerminalLast(sent)
  /\ TerminalLast(stream)
  /\ IsPrefix(stream, sent)
  /\ (Emitted("done") # <<>> \/ Emitted("error") # <<>>) => RunEnded

\* a team run that ended with an error after three messages, the consumer gone
TerminalEventsWitness ==
  /\ RunEnded /\ req.mode = "team"
  /\ Len(MessageEvents) = 3
  /\ Last(sent) = ErrorEvent("exception")
  /\ controller = "null"

ConversationIdFirst ==
  IF controller = "unset" THEN sent = <<>> /\ stream = <<>>
  ELSE /\ sent # <<>> /\ sent[1] = ConversationIdEvent(post.conversationId)
       /\ \A i \in 2..Len(sent) : sent[i].type # "conversation_id"
       /\ stream # <<>> /\ stream[1] = sent[1]
       /\ \A i \in 2..Len(stream) : stream[i].type # "conversation_id"

\* the stream of a request without conversation_id announces the conversation
\* created for it, before the events of the run
ConversationIdFirstWitness ==
  /\ req.conversation_id = 0
  /\ Len(sent) >= 4
  /\ sent[1] = ConversationIdEvent(NewConversation)
  /\ sent[2].type = "typing"

AgentOf(fn) == IF fn = "callGPT" THEN "gpt" ELSE IF fn = "callGemini" THEN "gemini" ELSE "claude"
\* the rows of the agents' messages written to chat_messages
AgentRows == SelectSeq(chat_messages, LAMBDA r : r.sender # "user")
\* the typing and message events, in the order sent
StageEvents == SelectSeq(sent, LAMBDA e : e.type \in {"typing", "message"})

\* C9: in an orchestration run typing and message events alternate, each
\* message following the typing event of the same sender; each typing event
\* comes with the call to that agent's client; a message is sent before it is
\* persisted, the rows persisted are the messages in order, and a stage's
\* typing event is sent only when the previous stage's message is persisted
StageOrder ==
  OrchestrationRun =>
    /\ \A i \in 1..Len(StageEvents) :
         /\ StageEvents[i].type = IF i % 2 = 1 THEN "typing" ELSE "message"
         /\ i % 2 = 0 => StageEvents[i].sender = StageEvents[i - 1].sender
    /\ Len(calls) = Len(Emitted("typing"))
    /\ \A i \in 1..Len(calls) : AgentOf(calls[i].fn) = Emitted("typing")[i].sender
    /\ Len(AgentRows) <= Len(MessageEvents)
    /\ \A i \in 1..Len(AgentRows) :
         AgentRows[i] = ChatRow(post.conversationId, MessageEvents[i].sender,
                                MessageEvents[i].content)
    /\ Len(Emitted("typing")) <= Len(AgentRows) + 1

\* a team run at its last stage: four typing events, three messages persisted,
\* the final call in flight
StageOrderWitness ==
  /\ pc = "callClaudeFinal"
  /\ Len(Emitted("typing")) = 4
  /\ Len(AgentRows) = 3
  /\ Senders(AgentRows) = <<"claude", "gpt", "gemini">>

CommandDetected == post.preferenceCommand.type \in {"list", "save", "delete"}

\* C10, as stated: when the message is classified as list, save or delete, no
\* agent is invoked and the stream is conversation_id, one message with the
\* reply and done, or conversation_id and a single error event
CommandReplyOrSingleError ==
  (CommandDetected /\ RunEnded) =>
    /\ calls = <<>>
    /\ \/ Types(sent) = <<"conversation_id", "message", "done">>
       \/ Types(sent) = <<"conversation_id", "error">>

\* C10: when the message is classified as list, save or delete, no agent is
\* ever invoked and the stream is conversation_id, one message from claude
\* with the reply and done; when the write of a preference throws it is
\* conversation_id and error, and when the write of the reply throws it is
\* conversation_id, the reply and error
CommandShortCircuits ==
  /\ OrchestrationRun => ~CommandDetected
  /\ CommandDetected =>
       /\ post.preferenceCommand = detectPreferenceCommand(req.message)
       /\ calls = <<>>
       /\ RunEnded =>
            /\ stream = sent
            /\ sent = <<ConversationIdEvent(post.conversationId)>> \o
                 (CASE Threw("savePreference") \/ Threw("deletePreference") ->
                         <<ErrorEvent("preferences")>>
                    [] Threw("saveChatMessage") ->
                         <<MessageEvent("claude", post.responseMessage),
                           ErrorEvent("preferences")>>
                    [] OTHER ->
                         <<MessageEvent("claude", post.responseMessage), DoneEvent>>)

\* a delete command removed the stored preference and was answered with the
\* reply and done
CommandShortCircuitsWitness ==
  /\ RunEnded
  /\ post.preferenceCommand.type = "delete"
  /\ post.prefToDelete = StoredName
  /\ preferences = <<>>
  /\ Types(sent) = <<"conversation_id", "message", "done">>

(***************************************************************************)
(* The command detector, the preference extractor and the auto-save        *)
(* extraction as functions of their input.  The inputs are texts made of   *)
(* a few phrases; a step applies the function as POST (route.ts 769, 792)  *)
(* and orchestrateAI (576) apply it and keeps the result where they keep   *)
(* it.                                                                     *)
(***************************************************************************)
\* phrases of a user message joined into one text
MaxPhrases == 3
\* phrases of an agent response joined into one text
MaxSentences == 2

RECURSIVE JoinSpace(_)
JoinSpace(ps) ==
  IF Len(ps) = 1 THEN ps[1] ELSE ps[1] \o <<" ">> \o JoinSpace(Tail(ps))

PhraseTexts(phrases, n) ==
  {JoinSpace(ps) : ps \in UNION {[1..k -> phrases] : k \in 1..n}}

PhPokaz == <<"p", "o", "k", "a", "z">>
PhRemember == <<"r", "e", "m", "e", "m", "b", "e", "r">>
PhForget == <<"f", "o", "r", "g", "e", "t">>
PhZapomnij == <<"z", "a", "p", "o", "m", "n", "i", "j">>
PhMyNameIs == <<"m", "y", " ", "n", "a", "m", "e", " ", "i", "s", " ", "P", "i", "o", "t", "r">>
PhHello == <<"H", "e", "l", "l", "o", " ", "W", "o", "r", "l", "d">>
CommandPhrases == {PhPokaz, PhRemember, PhForget, PhZapomnij, PhMyNameIs, PhHello}
CommandTexts == PhraseTexts(CommandPhrases, MaxPhrases)

SeDecision == <<"d", "e", "c", "y", "z", "j", "a">>
SeBug == <<"b", "u", "g">>
SeRule == <<"z", "a", "s", "a", "d", "a">>
SeRuleNever == <<"n", "i", "g", "d", "y", " ", "n", "i", "e", " ", "c", "o", "m", "m", "i", "t", "u", "j">>
SePrompt == <<"p", "r", "o", "m", "p", "t", ":">>
SePromptBlock == <<"p", "r", "o", "m", "p", "t", ":", "\n", "backtick", "backtick", "backtick", "\n", "x", "backtick", "backtick", "backtick">>
SeFeedback == <<"[", "U", "I", "]">>
SeTech == <<"s", "t", "a", "c", "k", " ", "r", "e", "a", "c", "t">>
ResponseSentences ==
  {TextPlain, SeDecision, SeBug, SeRule, SeRuleNever, SePrompt, SePromptBlock, SeFeedback,
   SeTech}
ResponseTexts == PhraseTexts(ResponseSentences, MaxSentences)

\* the text handed to detectPreferenceCommand, or the response handed to
\* processAutoSave for a request of a project or of none
ExtractInit ==
  /\ \/ /\ pc = "detectPreferenceCommand"
        /\ req \in {[NoRequest EXCEPT !.message = m] : m \in CommandTexts}
        /\ orch = InitOrch
     \/ /\ pc = "processAutoSave"
        /\ req \in {[NoRequest EXCEPT !.message = MsgDiscuss, !.project_id = p] :
                      p \in ProjectIds}
        /\ orch \in {[InitOrch EXCEPT !.claudeResponse = t,
                                      !.result = [content |-> t, tokensUsed |-> 0]] :
                       t \in ResponseTexts}
  /\ faults = 0
  /\ response = 0
  /\ post = InitPost
  /\ controller = "unset"
  /\ closed = FALSE
  /\ sent = <<>>
  /\ stream = <<>>
  /\ calls = <<>>
  /\ preferences = <<>>
  /\ chat_messages = <<>>
  /\ conversations = <<>>
  /\ tables = [llm_responses |-> <<>>, decisions |-> <<>>, bugs_history |-> <<>>,
               prompts |-> <<>>, project_rules |-> <<>>, tech_stack |-> <<>>]
  /\ thrown = <<>>
  /\ overdue = FALSE
  /\ task = "none"
  /\ sse = InitSse
  /\ runs = InitRuns
  /\ clients = InitClients
  /\ ui = InitUi

\* const preferenceCommand = detectPreferenceCommand(message)
Apply_detectPreferenceCommand ==
  /\ pc = "detectPreferenceCommand"
  /\ \E cmd \in {detectPreferenceCommand(req.message)} :
       /\ post' = [post EXCEPT !.preferenceCommand = cmd]
       /\ pc' = IF cmd.type = "save" /\ cmd.content # <<>>
                THEN "parsePreference" ELSE "detected"
  /\ UNCHANGED <<faults, req, response, orch, controller, closed, sent, stream, calls,
                 preferences, chat_messages, conversations, tables, thrown>>
  /\ UNCHANGED streamVars

\* const parsed = parsePreference(preferenceCommand.content)
Apply_parsePreference ==
  /\ pc = "parsePreference"
  /\ post' = [post EXCEPT !.parsed = parsePreference(post.preferenceCommand.content)]
  /\ pc' = "parsed"
  /\ UNCHANGED <<faults, req, response, orch, controller, closed, sent, stream, calls,
                 preferences, chat_messages, conversations, tables, thrown>>
  /\ UNCHANGED streamVars

\* const metadata = await processAutoSave(content, message, 'claude', projectId, ...)
Apply_processAutoSave ==
  /\ pc = "processAutoSave"
  /\ \E cands \in {AutoSaveCandidates(orch.claudeResponse, req.message, "claude",
                                      req.project_id, orch.result.tokensUsed)} :
     \E failed \in FailureSets(cands) :
     \E r \in {processAutoSave(cands, tables, failed)} :
       /\ tables' = r.tables
       /\ faults' = faults + Cardinality(failed)
       /\ orch' = [orch EXCEPT !.allAutoSaved = @ \o r.autoSaved]
  /\ pc' = "autoSaved"
  /\ UNCHANGED <<req, response, post, controller, closed, sent, stream, calls,
                 preferences, chat_messages, conversations, thrown>>
  /\ UNCHANGED streamVars

ExtractNext ==
  \/ Apply_detectPreferenceCommand
  \/ Apply_parsePreference
  \/ Apply_processAutoSave

ExtractSpec == ExtractInit /\ [][ExtractNext]_vars

(***************************************************************************)
(* Properties of the command detector.                                     *)
(***************************************************************************)
MatchesList(m) ==
  \/ Test(PREFERENCE_PATTERNS.list, m)
  \/ Test(PREFERENCE_PATTERNS.listAlt, m)
  \/ Test(PREFERENCE_PATTERNS.listEn, m)
MatchesSave(m) ==
  \/ Test(PREFERENCE_PATTERNS.save, m)
  \/ Test(PREFERENCE_PATTERNS.saveAlt, m)
  \/ Test(PREFERENCE_PATTERNS.saveAlt2, m)
  \/ Test(PREFERENCE_PATTERNS.saveEn, m)
MatchesDelete(m) ==
  \/ Test(PREFERENCE_PATTERNS.delete, m)
  \/ Test(PREFERENCE_PATTERNS.deleteEn, m)
\* detectPreferenceCommand has been applied to the message
DetectorApplied == pc \in {"detected", "parsePreference", "parsed"}

\* C11: the detector classifies a message that matches a list pattern as list
\* even if it also matches a save or a delete pattern, one that matches a save
\* pattern and no list pattern as save even if it also matches a delete
\* pattern, one that matches only a delete pattern as delete, and one that
\* matches no pattern as none
DetectorPriority ==
  DetectorApplied =>
    \E m \in {req.message} : \E type \in {post.preferenceCommand.type} :
      /\ MatchesList(m) => type = "list"
      /\ (~MatchesList(m) /\ MatchesSave(m)) => type = "save"
      /\ (~MatchesList(m) /\ ~MatchesSave(m) /\ MatchesDelete(m)) => type = "delete"
      /\ (~MatchesList(m) /\ ~MatchesSave(m) /\ ~MatchesDelete(m)) => type = "none"

\* a message that matches a list, a save and a delete pattern was classified
\* as list
DetectorPriorityWitness ==
  /\ DetectorApplied
  /\ MatchesList(req.message) /\ MatchesSave(req.message) /\ MatchesDelete(req.message)
  /\ post.preferenceCommand.type = "list"

(***************************************************************************)
(* A session of preference commands: requests handled one after another    *)
(* against the same preference table and the same conversation.  The       *)
(* command path reads neither mode nor project_id.                         *)
(***************************************************************************)
\* requests of a session
MaxRequests == 2

MsgSaveAdam == <<"r", "e", "m", "e", "m", "b", "e", "r", " ", "t", "h", "a", "t", " ", "m", "y", " ", "n", "a", "m", "e", " ", "i", "s", " ", "A", "d", "a", "m">>
MsgSaveTea == <<"r", "e", "m", "e", "m", "b", "e", "r", " ", "t", "h", "a", "t", " ", "i", " ", "l", "i", "k", "e", " ", "t", "e", "a">>
MsgDeleteValue == <<"f", "o", "r", "g", "e", "t", " ", "a", "b", "o", "u", "t", " ", "P", "i", "o", "t", "r">>
MsgDeleteMissing == <<"f", "o", "r", "g", "e", "t", " ", "a", "b", "o", "u", "t", " ", "c", "o", "l", "o", "r">>
SessionMessages ==
  {MsgList, MsgSave, MsgSaveAdam, MsgSaveTea, MsgDelete, MsgDeleteValue, MsgDeleteMissing}

UserRows == SelectSeq(chat_messages, LAMBDA r : r.sender = "user")

\* a further request arrives once the one before has returned: POST starts
\* with fresh locals, parses the body and awaits getPreferences
POST_next ==
  /\ pc \in {"idle", "ended"}
  /\ Len(UserRows) + Len(thrown) < MaxRequests
  /\ \E message \in SessionMessages :
       req' = [message |-> message, mode |-> "solo",
               conversation_id |-> ExistingConversation, project_id |-> ""]
  /\ response' = 0
  /\ post' = InitPost
  /\ controller' = "unset"
  /\ closed' = FALSE
  /\ sent' = <<>>
  /\ stream' = <<>>
  /\ pc' = "getPreferences"
  /\ UNCHANGED <<faults, orch, calls, preferences, chat_messages, conversations, tables,
                 thrown>>
  /\ UNCHANGED streamVars

SessionNext ==
  \/ POST_next
  \/ POST_getPreferences
  \/ POST_saveChatMessage_user
  \/ POST_savePreference
  \/ POST_deletePreference
  \/ POST_saveChatMessage_reply

SessionSpec == Init /\ [][SessionNext]_vars

(***************************************************************************)
(* Properties of the preference commands.                                  *)
(***************************************************************************)
\* the line of a preference in the listing
ListingLine(pref) == <<" ", " ", "*", " ">> \o pref.key \o <<":", " ">> \o pref.value \o <<"\n">>
\* the preference a save command with the message m stores
SavedBy(m) == parsePreference(detectPreferenceCommand(m).content)
\* the listing of a list request has been emitted, and the request before it
\* in the conversation was a save command that stored a preference and was
\* answered
ListAfterSave ==
  /\ pc = "saveReply"
  /\ post.preferenceCommand.type = "list"
  /\ sent = <<ConversationIdEvent(post.conversationId),
              MessageEvent("claude", post.responseMessage)>>
  /\ Len(chat_messages) >= 3
  /\ \E n \in {Len(chat_messages)} :
       /\ chat_messages[n] = ChatRow(post.conversationId, "user", req.message)
       /\ chat_messages[n - 2].sender = "user"
       /\ detectPreferenceCommand(chat_messages[n - 2].content).type = "save"
       /\ chat_messages[n - 1] =
            ChatRow(post.conversationId, "claude",
                    SavedReply(SavedBy(chat_messages[n - 2].content)))
LastSaved == SavedBy(chat_messages[Len(chat_messages) - 2].content)
\* getPreferences returned the rows of the table
ReadSucceeded == Len(post.preferences) = Len(preferences)

\* C12, as stated: the listing emitted for a list request that immediately
\* follows a completed save contains the key and the value the save stored
ListAlwaysShowsSaved ==
  ListAfterSave => Includes(post.responseMessage, ListingLine(LastSaved))

\* C12: the listing emitted for a list request that immediately follows a
\* completed save contains the key and the value the save stored, provided
\* the list request's read of the preferences succeeds; when the read fails
\* the listing is the text for an empty table
ListShowsSaved ==
  ListAfterSave =>
    /\ preferences # <<>>
    /\ ReadSucceeded => Includes(post.responseMessage, ListingLine(LastSaved))
    /\ ~ReadSucceeded => post.responseMessage = ListEmptyReply

\* a save of the name Adam over the stored name Piotr was followed by a list
\* request whose listing shows name: Adam
ListShowsSavedWitness ==
  /\ ListAfterSave
  /\ ReadSucceeded
  /\ LastSaved.value = <<"A", "d", "a", "m">>
  /\ Len(preferences) = 1
  /\ Includes(post.responseMessage, ListingLine(LastSaved))

RowsOf(rows, key) == SelectSeq(rows, LAMBDA r : r.key = key)
OtherRows(rows, key) == SelectSeq(rows, LAMBDA r : r.key # key)
\* the step in which savePreference returns
SaveReturns == pc = "savePreference" /\ pc' = "saveReply"

DeleteCommand ==
  /\ post.preferenceCommand.type = "delete"
  /\ post.preferenceCommand.content # <<>>
\* the key the delete command names (keyToDelete)
NamedKey == ReplaceSpaces(ToLowerCase(post.preferenceCommand.content))
NotFoundStream ==
  <<ConversationIdEvent(post.conversationId),
    MessageEvent("claude", NotFoundReply(post.preferenceCommand.content))>>
\* no preference read for the request has a key that contains the named key
\* or a value that contains the named text, ignoring case
NothingMatches ==
  \A i \in 1..Len(post.preferences) :
    /\ ~Includes(post.preferences[i].key, NamedKey)
    /\ ~Includes(ToLowerCase(post.preferences[i].value),
                 ToLowerCase(post.preferenceCommand.content))

DeleteReturns == pc = "deletePreference" /\ pc' = "saveReply"
\* the preference at position i of those read matches the named text
MatchesNamed(i) ==
  \/ Includes(post.preferences[i].key, NamedKey)
  \/ Includes(ToLowerCase(post.preferences[i].value),
              ToLowerCase(post.preferenceCommand.content))

ExtractorApplied == pc = "parsed"
MyNameIs == <<"m", "y", " ", "n", "a", "m", "e", " ", "i", "s", " ">>

\* C16, as stated: for a text "my name is X" the extractor returns category
\* personal, key name and value X
MyNameIsPersonal ==
  (/\ ExtractorApplied
   /\ StartsAt(post.preferenceCommand.content, 1, MyNameIs)
   /\ Len(post.preferenceCommand.content) > Len(MyNameIs)) =>
    post.parsed =
      [category |-> "personal", key |-> <<"n", "a", "m", "e">>,
       value |-> SubSeq(post.preferenceCommand.content, Len(MyNameIs) + 1,
                        Len(post.preferenceCommand.content))]

\* the rules that match a text, and the first of them (0: none)
MatchingRules(content) ==
  {i \in 1..Len(PreferenceRules) : Test(PreferenceRules[i].regex, content)}
FirstRule(content) ==
  IF MatchingRules(content) = {} THEN 0
  ELSE CHOOSE i \in MatchingRules(content) : \A j \in MatchingRules(content) : i <= j
\* the words of a text: its maximal runs of characters that are not white space
RECURSIVE WordsOf(_)
WordsOf(s) ==
  IF s = <<>> THEN <<>>
  ELSE IF IsSpace(Head(s)) THEN WordsOf(Tail(s))
  ELSE LET n == CHOOSE k \in 1..Len(s) :
                  /\ \A j \in 1..k : ~IsSpace(s[j])
                  /\ (k = Len(s) \/ IsSpace(s[k + 1]))
       IN <<SubSeq(s, 1, n)>> \o WordsOf(SubSeq(s, n + 1, Len(s)))
FirstThreeWords(s) ==
  SubSeq(WordsOf(s), 1, IF Len(WordsOf(s)) < 3 THEN Len(WordsOf(s)) ELSE 3)

\* C17: for every text the extractor returns a triple; it is taken from the
\* first rule of the ordered list that matches the text (the rule's category;
\* the rule's key and the trimmed capture for a rule with one capture, the
\* first capture lower-cased with underscores and the second capture for a
\* rule with two), and when no rule matches it is category general, the first
\* three words lower-cased and joined by underscores, and the full text
ExtractorFirstMatch ==
  ExtractorApplied =>
    \E content \in {post.preferenceCommand.content} : \E i \in {FirstRule(content)} :
      /\ post.parsed \in [category : {"general", "personal", "tech", "work", "communication"},
                          key : Seq(STRING), value : Seq(STRING)]
      /\ i = 0 =>
           post.parsed = [category |-> "general",
                          key |-> ToLowerCase(JoinUnderscore(FirstThreeWords(content))),
                          value |-> content]
      /\ i # 0 =>
           \E caps \in {Exec(PreferenceRules[i].regex, content).caps} :
             /\ post.parsed.category = PreferenceRules[i].category
             /\ Len(caps) = 1 =>
                  /\ post.parsed.key = PreferenceRules[i].keyPrefix
                  /\ post.parsed.value = Trim(caps[1])
             /\ Len(caps) = 2 =>
                  /\ post.parsed.key = ReplaceSpaces(ToLowerCase(Trim(caps[1])))
                  /\ post.parsed.value = Trim(caps[2])

\* a text that two rules match ("my name is Piotr": the rule "my ... is ..."
\* and the rule "my name is ...") was extracted by the earlier one
ExtractorFirstMatchWitness ==
  /\ ExtractorApplied
  /\ Cardinality(MatchingRules(post.preferenceCommand.content)) >= 2
  /\ FirstRule(post.preferenceCommand.content) = 10
  /\ post.parsed.category = "general"

(***************************************************************************)
(* Properties of auto-save.                                                *)
(***************************************************************************)
AutoSaveLabels ==
  {"processAutoSave_claude", "processAutoSave_gpt", "processAutoSave_summary",
   "processAutoSave_gemini", "processAutoSave_final"}
\* the step in which a processAutoSave call of the run returns
AutoSaveReturns == pc \in AutoSaveLabels /\ pc' # pc
\* the rows the step adds to a table, and the references it adds to the
\* run's metadata for that table
NewRows(t) == SubSeq(tables'[t], Len(tables[t]) + 1, Len(tables'[t]))
NewRefs(t) ==
  SelectSeq(SubSeq(orch'.allAutoSaved, Len(orch.allAutoSaved) + 1, Len(orch'.allAutoSaved)),
            LAMBDA r : r.table = t)
HasDecisionAndBug(content) ==
  /\ Test(AUTO_SAVE_PATTERNS.decision, content)
  /\ Test(AUTO_SAVE_PATTERNS.bug, content)
\* the step persists one Decision and one Bug and references both
SavesDecisionAndBug ==
  /\ Len(NewRows("decisions")) = 1
  /\ Len(NewRows("bugs_history")) = 1
  /\ NewRefs("decisions") =
       <<[table |-> "decisions", id |-> Len(tables'.decisions), type |-> "decision"]>>
  /\ NewRefs("bugs_history") =
       <<[table |-> "bugs_history", id |-> Len(tables'.bugs_history), type |-> "bug"]>>

AutoSaveApplied == pc = "autoSaved"
Detected == detectAutoSavePatterns(orch.claudeResponse)
IsDetected(t) == \E i \in 1..Len(Detected) : Detected[i] = t
\* the table of the records of a kind; a feedback marker is recorded by the
\* row of the response itself (route.ts:326)
KindTable ==
  [decision |-> "decisions", bug |-> "bugs_history", prompt |-> "prompts",
   rule |-> "project_rules", feedback |-> "llm_responses"]
KindsButTech == DOMAIN KindTable
\* the record candidates extraction produces for the response of the state
Candidates ==
  AutoSaveCandidates(orch.claudeResponse, req.message, "claude", req.project_id,
                     orch.result.tokensUsed)
OfKind(cands, t) == SelectSeq(cands, LAMBDA c : c.table = KindTable[t])
InSeq(seq, x) == \E i \in 1..Len(seq) : seq[i] = x
DecisionTitleMatches(content) ==
  \E i \in 1..Len(DecisionTitlePatterns) : Exec(DecisionTitlePatterns[i], content).ok
RuleSubPatternMatches(content) ==
  \E i \in 1..Len(RulePatterns) : Exec(RulePatterns[i].regex, content).ok

\* C19, as stated: every kind other than tech-mention that is detected in a
\* response has at least one record candidate
DetectedKindAlwaysExtracted ==
  AutoSaveApplied =>
    LET cands == Candidates
        detected == Detected
    IN \A t \in KindsButTech : InSeq(detected, t) => OfKind(cands, t) # <<>>

\* C19: for a request that names a project, a detected decision or bug has
\* exactly one candidate, with the generic title when no title pattern
\* matches; a detected prompt has one exactly when the response has a fenced
\* block, and a detected rule exactly when one of the rule patterns matches;
\* without a project only the row of the response is produced; the
\* candidates are the rows persisted when no save fails.  The candidates
\* depend on the response and the request only, so they are compared in the
\* states where no save failed, which cover every response and request
DetectedKindExtracted ==
  (AutoSaveApplied /\ faults = 0) =>
    LET cands == Candidates
        detected == Detected
        project == req.project_id # ""
    IN /\ Len(OfKind(cands, "feedback")) = 1
       /\ \A t \in {"decision", "bug"} :
            InSeq(detected, t) => Len(OfKind(cands, t)) = IF project THEN 1 ELSE 0
       /\ (InSeq(detected, "decision") /\ project
             /\ ~DecisionTitleMatches(orch.claudeResponse)) =>
            OfKind(cands, "decision")[1].row.title = DefaultDecisionTitle
       /\ InSeq(detected, "prompt") =>
            Len(OfKind(cands, "prompt")) =
              IF project /\ extractPrompt(orch.claudeResponse).found THEN 1 ELSE 0
       /\ InSeq(detected, "rule") =>
            Len(OfKind(cands, "rule")) =
              IF project /\ RuleSubPatternMatches(orch.claudeResponse) THEN 1 ELSE 0
       /\ \A t \in KindsButTech \ {"feedback"} :
            ~InSeq(detected, t) => OfKind(cands, t) = <<>>
       /\ \A t \in KindsButTech : Len(tables[KindTable[t]]) = Len(OfKind(cands, t))

\* processAutoSave was applied, for a project, to a response with a decision
\* phrase and a rule word but no rule pattern: the decision is persisted with
\* the generic title and no rule is
DetectedKindExtractedWitness ==
  /\ AutoSaveApplied
  /\ req.project_id # ""
  /\ faults = 0
  /\ IsDetected("decision")
  /\ IsDetected("rule")
  /\ ~RuleSubPatternMatches(orch.claudeResponse)
  /\ Len(tables.decisions) = 1
  /\ tables.decisions[1].title = DefaultDecisionTitle
  /\ tables.project_rules = <<>>

\* the sender of the stage of an auto-save step, and the step that follows it
StageSender ==
  [processAutoSave_claude |-> "claude", processAutoSave_gpt |-> "gpt",
   processAutoSave_summary |-> "claude", processAutoSave_gemini |-> "gemini",
   processAutoSave_final |-> "claude"]
StageSaveLabel ==
  [processAutoSave_claude |-> "saveChatMessage_claude",
   processAutoSave_gpt |-> "saveChatMessage_gpt",
   processAutoSave_summary |-> "saveChatMessage_summary",
   processAutoSave_gemini |-> "saveChatMessage_gemini",
   processAutoSave_final |-> "saveChatMessage_final"]
\* the rows for table t of the attempts of cands that are not in failed
KeptRows(cands, failed, t) ==
  LET idx == SelectSeq([k \in 1..Len(cands) |-> k],
                       LAMBDA k : k \notin failed /\ cands[k].table = t)
  IN [i \in 1..Len(idx) |-> cands[idx[i]].row]
ModeSenders ==
  CASE req.mode = "duo" -> DuoSenders
    [] req.mode = "team" -> TeamSenders
    [] OTHER -> <<"claude">>

\* C20: a failed save of an auto-save record aborts nothing: the step in
\* which processAutoSave returns throws nothing, sends the stage's message
\* and goes on to the stage's next step whatever failed; the records whose
\* save did not fail are all persisted, and exactly the persisted records are
\* referenced in the metadata; a run in which nothing else failed ends with
\* done and the messages of its mode, with or without failed saves
AutoSaveFailureContained ==
  /\ []((OrchestrationRun /\ RunEnded /\ thrown = <<>>) =>
          (EndsWithDone /\ Senders(MessageEvents) = ModeSenders))
  /\ [][AutoSaveReturns =>
          LET cands == SaveCandidates[orch.result.content, req.message, StageSender[pc],
                                      req.project_id, orch.result.tokensUsed]
          IN /\ thrown' = thrown
             /\ pc' = StageSaveLabel[pc]
             /\ sent' = Append(sent, MessageEvent(StageSender[pc], orch.result.content))
             /\ \E failed \in SUBSET (1..Len(cands)) :
                  /\ Cardinality(failed) = faults' - faults
                  /\ \A t \in DOMAIN tables :
                       /\ NewRows(t) = KeptRows(cands, failed, t)
                       /\ Len(NewRefs(t)) = Len(NewRows(t))
                       /\ \A i \in 1..Len(NewRefs(t)) :
                            NewRefs(t)[i].id = Len(tables[t]) + i]_vars

\* a solo run for a project whose response was "decyzja: bug": the save of
\* the Decision failed, the Bug was persisted, and the run ended with done,
\* whose metadata references the Bug and no Decision
AutoSaveFailureContainedWitness ==
  /\ RunEnded
  /\ EndsWithDone
  /\ thrown = <<>>
  /\ faults = 1
  /\ req.mode = "solo"
  /\ req.project_id # ""
  /\ orch.claudeResponse = TextDecisionBug
  /\ tables.decisions = <<>>
  /\ Len(tables.bugs_history) = 1
  /\ Len(tables.llm_responses) = 1
  /\ \E i \in 1..Len(Last(sent).autoSaved) : Last(sent).autoSaved[i].table = "bugs_history"
  /\ \A i \in 1..Len(Last(sent).autoSaved) : Last(sent).autoSaved[i].table # "decisions"

(***************************************************************************)
(* Properties of the stages of a run.                                      *)
(***************************************************************************)
AgentCallLabels ==
  {"callClaude", "callGPT", "callClaudeSummary", "callGemini", "callClaudeFinal"}
CallAutoSaveLabel ==
  [callClaude |-> "processAutoSave_claude", callGPT |-> "processAutoSave_gpt",
   callClaudeSummary |-> "processAutoSave_summary", callGemini |-> "processAutoSave_gemini",
   callClaudeFinal |-> "processAutoSave_final"]
CallSaveLabel ==
  [callClaude |-> "saveChatMessage_claude", callGPT |-> "saveChatMessage_gpt",
   callClaudeSummary |-> "saveChatMessage_summary", callGemini |-> "saveChatMessage_gemini",
   callClaudeFinal |-> "saveChatMessage_final"]
Fallbacks == {GptFallback, SummaryFallback, GeminiFallback, FinalFallback}
\* the step in which an agent call settles and leaves the stage a response:
\* the agent's text, or the fallback text after a reviewer's failure
ResponseProduced == pc \in AgentCallLabels /\ pc' # pc /\ pc' # "ended"
AgentMessages == SelectSeq(MessageEvents, LAMBDA e : e.content \notin Fallbacks)
FallbackMessages == SelectSeq(MessageEvents, LAMBDA e : e.content \in Fallbacks)

StageFields ==
  CASE req.mode = "duo" -> <<"claudeResponse", "gptResponse", "claudeSummary">>
    [] req.mode = "team" -> <<"claudeResponse", "gptResponse", "geminiResponse", "claudeFinal">>
    [] OTHER -> <<"claudeResponse">>
\* the stages whose agent call succeeded
SucceededStages ==
  SelectSeq([i \in 1..Len(StageFields) |-> i],
            LAMBDA i : orch[StageFields[i]] \notin Fallbacks)
\* the token usage an agent reports with a text
TokensOf(content) == (CHOOSE r \in AgentResults : r.content = content).tokensUsed
RECURSIVE SumTokens(_, _)
SumTokens(stages, k) ==
  IF k > Len(stages) THEN 0
  ELSE TokensOf(orch[StageFields[stages[k]]]) + SumTokens(stages, k + 1)
\* the references of the stages k.. when every save succeeds, given the rows
\* the tables hold before stage k
RECURSIVE StageRefs(_, _, _)
StageRefs(stages, k, count) ==
  IF k > Len(stages) THEN <<>>
  ELSE LET text == orch[StageFields[stages[k]]]
           cands == SaveCandidates[text, req.message, ModeSenders[stages[k]],
                                   req.project_id, TokensOf(text)]
           RECURSIVE Refs(_, _)
           Refs(j, cnt) ==
             IF j > Len(cands) THEN [refs |-> <<>>, count |-> cnt]
             ELSE LET t == cands[j].table
                      rest == Refs(j + 1, [cnt EXCEPT ![t] = @ + 1])
                  IN [refs |-> <<[table |-> t, id |-> cnt[t] + 1, type |-> cands[j].type]>>
                                 \o rest.refs,
                      count |-> rest.count]
           here == Refs(1, count)
       IN here.refs \o StageRefs(stages, k + 1, here.count)
RefsOf(refs, t) == SelectSeq(refs, LAMBDA r : r.table = t)

MissingField ==
  /\ pc # "idle"
  /\ ~Threw("request.json")
  /\ (req.message = <<>> \/ req.mode = "")

\* C23: a request whose message or mode is missing is answered 400 and ends
\* there: no stream is created, no event is sent, no conversation, chat
\* message, preference or auto-save record is written and no agent is
\* called; and only such a request is answered 400
ValidationRejects ==
  /\ MissingField =>
       /\ response = 400
       /\ pc = "ended"
       /\ controller = "unset"
       /\ ~closed
       /\ sent = <<>>
       /\ stream = <<>>
       /\ calls = <<>>
       /\ chat_messages = <<>>
       /\ conversations = <<>>
       /\ preferences \in InitialPreferences
       /\ \A t \in DOMAIN tables : tables[t] = <<>>
       /\ post = InitPost
       /\ thrown = <<>>
  /\ response = 400 => MissingField

\* a request with a message and no mode was answered 400
ValidationRejectsWitness ==
  /\ response = 400
  /\ req.message = MsgSave
  /\ req.mode = ""
  /\ preferences = <<>>
  /\ pc = "ended"

ConsumerGone == controller = "null"
ModeCalls ==
  CASE req.mode = "duo" -> DuoCalls
    [] req.mode = "team" -> TeamCalls
    [] OTHER -> <<"callClaude">>
\* the calls the handler awaits
AwaitedCalls ==
  {"request.json", "createConversation", "saveChatMessage", "savePreference",
   "deletePreference", "getProjectById", "callClaude", "callGPT", "callClaudeSummary",
   "callGemini", "callClaudeFinal"}

\* C24: once the consumer of the stream has disconnected, a push or a close
\* changes nothing on the stream and throws nothing; the disconnection
\* changes nothing but the controller, and the run goes on: a run in which no
\* awaited call failed makes all the agent calls and chat-message writes of
\* its mode and ends with done, with or without a consumer
DisconnectIsSilent ==
  /\ [](/\ IsPrefix(stream, sent)
        /\ (controller = "open" /\ response = 200) => stream = sent)
  /\ []((OrchestrationRun /\ RunEnded /\ thrown = <<>>) =>
          /\ EndsWithDone
          /\ CalledFns = ModeCalls
          /\ Senders(AgentRows) = ModeSenders)
  /\ [][(controller = "open" /\ controller' = "null") =>
          UNCHANGED <<pc, faults, req, response, post, orch, closed, sent, stream, calls,
                      preferences, chat_messages, conversations, tables, thrown>>]_vars
  /\ [][ConsumerGone =>
          /\ controller' = "null"
          /\ stream' = stream
          /\ closed' = closed
          /\ IsPrefix(sent, sent')
          /\ thrown' # thrown =>
               /\ Len(thrown') = Len(thrown) + 1
               /\ Last(thrown') \in AwaitedCalls
               /\ pc' \in {"ended"} \cup {CallSaveLabel[c] : c \in AgentCallLabels}]_vars

\* the consumer left a team run before its first message; the run made its
\* four agent calls, wrote its four messages and ended with done, of which
\* nothing reached the stream, and the stream was never closed
DisconnectIsSilentWitness ==
  /\ RunEnded
  /\ ConsumerGone
  /\ req.mode = "team"
  /\ thrown = <<>>
  /\ EndsWithDone
  /\ CalledFns = TeamCalls
  /\ Len(AgentRows) = 4
  /\ Len(MessageEvents) = 4
  /\ SelectSeq(stream, LAMBDA e : e.type \in {"message", "done"}) = <<>>
  /\ ~closed

(***************************************************************************)
(* GET /api/stream: the status of a task as server-sent events, polled     *)
(* from the table tasks.  Time is the event that MAX_DURATION has elapsed  *)
(* since the request started, and the firing of the two timers.            *)
(***************************************************************************)
\* heartbeat frames counted on one stream
MaxHeartbeats == 2

TaskStatuses == {"pending", "in_progress", "completed", "failed"}
StreamEvent(status, error) == [status |-> status, error |-> error]
\* controller.enqueue and controller.close throw once the stream is closed
\* or cancelled
Writable(s) == ~s.closed /\ ~s.cancelled
\* the status sent for a task row that has no iteration rows
StreamStatusOf(status) ==
  CASE status = "pending" -> "idle"
    [] status = "in_progress" -> "claude_working"
    [] status = "completed" -> "done"
    [] status = "failed" -> "error"
chatVars == <<faults, req, post, orch, controller, closed, sent, stream, calls, preferences,
              chat_messages, conversations, tables, runs, clients, ui>>

\* the request arrives: the stream is created, start() sets the heartbeat
\* interval and calls checkTaskStatus, which awaits the task row
GET ==
  /\ pc = "idle"
  /\ \E task_id \in {0, 1}, configured \in BOOLEAN :
       IF task_id = 0
       THEN response' = 400 /\ pc' = "ended" /\ UNCHANGED sse
       ELSE IF ~configured
            THEN response' = 500 /\ pc' = "ended" /\ UNCHANGED sse
            ELSE /\ sse' = [sse EXCEPT !.task_id = task_id, !.isActive = TRUE,
                                       !.heartbeat = "set"]
                 /\ response' = 200
                 /\ pc' = "from_tasks"
  /\ UNCHANGED <<chatVars, thrown, overdue, task>>

\* a faulty variant of checkTaskStatus_tail: the elapsed time is not looked at
checkTaskStatusForever(s, status, late) ==
  LET changed == status # s.lastStatus
  IN IF changed /\ ~Writable(s) THEN [sse |-> s, pc |-> "ended"]
     ELSE LET s1 == IF changed
                    THEN [s EXCEPT !.frames = Append(@, StreamEvent(status,
                                                  IF status = "error" THEN "Task failed" ELSE "")),
                                   !.lastStatus = status]
                    ELSE s
          IN IF status \in {"done", "error"}
             THEN [sse |-> [s1 EXCEPT !.isActive = FALSE, !.closed = (@ \/ Writable(s1))],
                   pc |-> "ended"]
             ELSE [sse |-> s1, pc |-> IF s1.isActive THEN "setTimeout" ELSE "ended"]

\* checkTaskStatus after its awaits: the event is sent when the status has
\* changed; a finished task closes the stream; so does a request that has run
\* for longer than MAX_DURATION, after an error event; otherwise the next
\* poll is scheduled while the stream is active.  A push or a close on a
\* stream that is closed or cancelled throws into the catch, which does
\* nothing unless the stream is active
checkTaskStatus_tail(s, status, late) ==
  LET changed == status # s.lastStatus
  IN IF changed /\ ~Writable(s) THEN [sse |-> s, pc |-> "ended"]
     ELSE LET s1 == IF changed
                    THEN [s EXCEPT !.frames = Append(@, StreamEvent(status,
                                                  IF status = "error" THEN "Task failed" ELSE "")),
                                   !.lastStatus = status]
                    ELSE s
          IN IF status \in {"done", "error"}
             THEN [sse |-> [s1 EXCEPT !.isActive = FALSE, !.closed = (@ \/ Writable(s1))],
                   pc |-> "ended"]
             ELSE IF late
                  THEN IF Writable(s1)
                       THEN [sse |-> [s1 EXCEPT !.frames = Append(@, StreamEvent("error", "TIMEOUT")),
                                                !.isActive = FALSE, !.closed = TRUE],
                             pc |-> "ended"]
                       ELSE [sse |-> s1, pc |-> "ended"]
                  ELSE [sse |-> s1, pc |-> IF s1.isActive THEN "setTimeout" ELSE "ended"]

\* the task row arrives: an error or a missing row ends the stream with an
\* error event; otherwise the last iteration is awaited
checkTaskStatus_from_tasks ==
  /\ pc = "from_tasks"
  /\ \E taskError \in {task = "missing", TRUE} :
       IF taskError
       THEN /\ sse' = IF Writable(sse)
                      THEN [sse EXCEPT !.frames = Append(@, StreamEvent("error",
                                         IF task = "missing" THEN "NOT_FOUND" ELSE "message")),
                                       !.isActive = FALSE, !.closed = TRUE]
                      ELSE sse
            /\ pc' = "ended"
       ELSE /\ sse' = [sse EXCEPT !.read = task]
            /\ pc' = "from_task_iterations"
  /\ UNCHANGED <<chatVars, response, thrown, overdue, task>>

\* the iterations arrive (none): the status is derived; the files of a task
\* that has just completed are awaited before its event is sent
checkTaskStatus_from_task_iterations ==
  /\ pc = "from_task_iterations"
  /\ LET status == StreamStatusOf(sse.read)
     IN IF status = "done" /\ status # sse.lastStatus
        THEN pc' = "storage_list" /\ UNCHANGED sse
        ELSE \E r \in {checkTaskStatus_tail(sse, status, overdue)} :
               sse' = r.sse /\ pc' = r.pc
  /\ UNCHANGED <<chatVars, response, thrown, overdue, task>>

\* the list of files arrives (a failure of the list is ignored)
checkTaskStatus_storage_list ==
  /\ pc = "storage_list"
  /\ \E r \in {checkTaskStatus_tail(sse, "done", overdue)} :
       sse' = r.sse /\ pc' = r.pc
  /\ UNCHANGED <<chatVars, response, thrown, overdue, task>>

\* the poll timer fires: checkTaskStatus returns at once on an inactive stream
checkTaskStatus_setTimeout ==
  /\ pc = "setTimeout"
  /\ pc' = IF sse.isActive THEN "from_tasks" ELSE "ended"
  /\ UNCHANGED <<chatVars, response, thrown, overdue, task, sse>>

\* a faulty variant of heartbeat: the timer fires once
heartbeatOnce ==
  /\ sse.heartbeat = "set"
  /\ sse.isActive => sse.beats < MaxHeartbeats
  /\ sse' = IF sse.isActive /\ Writable(sse)
            THEN [sse EXCEPT !.beats = @ + 1, !.heartbeat = "cleared"]
            ELSE [sse EXCEPT !.heartbeat = "cleared"]
  /\ UNCHANGED <<chatVars, pc, response, thrown, overdue, task>>

\* the heartbeat interval fires: a comment frame on an active stream; the
\* interval is cleared when the stream is inactive or the push throws
heartbeat ==
  /\ sse.heartbeat = "set"
  /\ sse.isActive => sse.beats < MaxHeartbeats
  /\ sse' = IF sse.isActive /\ Writable(sse)
            THEN [sse EXCEPT !.beats = @ + 1]
            ELSE [sse EXCEPT !.heartbeat = "cleared"]
  /\ UNCHANGED <<chatVars, pc, response, thrown, overdue, task>>

\* the consumer of the task stream cancels it
GET_cancel ==
  /\ response = 200
  /\ sse.task_id # 0
  /\ Writable(sse)
  /\ sse' = [sse EXCEPT !.isActive = FALSE, !.cancelled = TRUE]
  /\ UNCHANGED <<chatVars, pc, response, thrown, overdue, task>>

\* the worker that runs the task updates its row
WorkerUpdatesTask ==
  /\ sse.task_id # 0
  /\ \/ task = "pending" /\ task' = "in_progress"
     \/ task = "in_progress" /\ task' \in {"completed", "failed"}
  /\ UNCHANGED <<chatVars, pc, response, thrown, overdue, sse>>

\* MAX_DURATION elapses while an agent call of a chat run is in flight, or
\* while a task stream is served
DurationElapses ==
  /\ ~overdue
  /\ \/ pc \in AgentCallLabels
     \/ sse.task_id # 0 /\ pc # "ended"
  /\ overdue' = TRUE
  /\ UNCHANGED <<chatVars, pc, response, thrown, task, sse>>

\* a request under the clock: a chat request without a project whose user
\* message has been written and whose stream has been created, or a request
\* for the stream of a task
TimedInit ==
  /\ \/ /\ pc = "getConversationHistory"
        /\ req \in {[message |-> MsgDiscuss, mode |-> m,
                     conversation_id |-> ExistingConversation, project_id |-> ""] :
                      m \in Modes \ {""}}
        /\ post = [InitPost EXCEPT !.conversationId = ExistingConversation]
        /\ controller = "open"
        /\ sent = <<ConversationIdEvent(ExistingConversation)>>
        /\ stream = <<ConversationIdEvent(ExistingConversation)>>
        /\ chat_messages = <<ChatRow(ExistingConversation, "user", MsgDiscuss)>>
        /\ task = "none"
     \/ /\ pc = "idle"
        /\ req = NoRequest
        /\ post = InitPost
        /\ controller = "unset"
        /\ sent = <<>>
        /\ stream = <<>>
        /\ chat_messages = <<>>
        /\ task \in TaskStatuses \cup {"missing"}
  /\ faults = 0
  /\ response = 0
  /\ orch = InitOrch
  /\ closed = FALSE
  /\ calls = <<>>
  /\ preferences = <<>>
  /\ conversations = <<>>
  /\ tables = [llm_responses |-> <<>>, decisions |-> <<>>, bugs_history |-> <<>>,
               prompts |-> <<>>, project_rules |-> <<>>, tech_stack |-> <<>>]
  /\ thrown = <<>>
  /\ overdue = FALSE
  /\ sse = InitSse
  /\ runs = InitRuns
  /\ clients = InitClients
  /\ ui = InitUi

\* the awaits of a chat run on the persistence gateway
Persisting ==
  \/ POST_getConversationHistory
  \/ orchestrateAI_processAutoSave_claude
  \/ orchestrateAI_saveChatMessage_claude
  \/ orchestrateAI_processAutoSave_gpt
  \/ orchestrateAI_saveChatMessage_gpt
  \/ orchestrateAI_processAutoSave_summary
  \/ orchestrateAI_saveChatMessage_summary
  \/ orchestrateAI_processAutoSave_gemini
  \/ orchestrateAI_saveChatMessage_gemini
  \/ orchestrateAI_processAutoSave_final
  \/ orchestrateAI_saveChatMessage_final
\* the awaits of a chat run on the agent clients
AgentSettles ==
  \/ orchestrateAI_callClaude
  \/ orchestrateAI_callGPT
  \/ orchestrateAI_callClaudeSummary
  \/ orchestrateAI_callGemini
  \/ orchestrateAI_callClaudeFinal
\* the awaits and the poll timer of checkTaskStatus
Polling ==
  \/ checkTaskStatus_from_tasks
  \/ checkTaskStatus_from_task_iterations
  \/ checkTaskStatus_storage_list
  \/ checkTaskStatus_setTimeout

TimedNext ==
  \/ Persisting
  \/ AgentSettles
  \/ GET
  \/ Polling
  \/ heartbeat
  \/ GET_cancel
  \/ WorkerUpdatesTask
  \/ DurationElapses

\* the gateway answers and the timers fire; an agent call may never settle,
\* and neither the worker nor the consumer has to act
TimedSpec ==
  /\ TimedInit
  /\ [][TimedNext]_vars
  /\ WF_vars(Persisting)
  /\ WF_vars(Polling)
  /\ WF_vars(heartbeat)

(***************************************************************************)
(* Properties of the time budget and of the heartbeat.                     *)
(***************************************************************************)
TaskStreamRun == sse.task_id # 0
TimedOut ==
  \E i \in 1..Len(sse.frames) : sse.frames[i] = StreamEvent("error", "TIMEOUT")
TerminalFrame(e) == e.status \in {"done", "error"}

AgentInFlight ==
  /\ response = 200
  /\ controller = "open"
  /\ ~closed
  /\ pc \in AgentCallLabels
HeartbeatOnChatStream == \E i \in 1..Len(stream) : stream[i].type = "heartbeat"

\* C26, as stated: while the stream of a run is open and an agent call is in
\* flight, a heartbeat frame is pushed on the stream
HeartbeatOnEveryStream ==
  AgentInFlight ~> (~AgentInFlight \/ HeartbeatOnChatStream)

\* C26: the heartbeat belongs to the stream of a task only: while that stream
\* is active, every firing of the interval pushes one heartbeat frame, up to
\* the number counted here; frames are pushed on an active stream only, and
\* the interval is cleared once the stream has ended.  The stream of a chat
\* run has no heartbeat: nothing is pushed on it while an agent call is in
\* flight
HeartbeatOnTaskStream ==
  /\ \A n \in 0..(MaxHeartbeats - 1) :
       (sse.isActive /\ sse.beats = n) ~> (~sse.isActive \/ sse.beats = n + 1)
  /\ (sse.heartbeat = "set" /\ ~sse.isActive /\ TaskStreamRun) ~> (sse.heartbeat = "cleared")
  /\ [][sse'.beats # sse.beats =>
          /\ sse.isActive
          /\ Writable(sse)
          /\ sse.heartbeat = "set"
          /\ sse' = [sse EXCEPT !.beats = @ + 1]
          /\ UNCHANGED <<pc, overdue, task>>]_vars
  /\ [][(pc \in AgentCallLabels /\ pc' = pc) => UNCHANGED <<sent, stream, closed>>]_vars
  /\ [](OrchestrationRun => sse = InitSse)

\* a task stream is being polled: MaxHeartbeats heartbeat frames have been
\* pushed on it between its events, and it is still active
HeartbeatOnTaskStreamWitness ==
  /\ TaskStreamRun
  /\ sse.isActive
  /\ sse.beats = MaxHeartbeats
  /\ sse.heartbeat = "set"
  /\ pc = "setTimeout"
  /\ Len(sse.frames) = 2

(***************************************************************************)
(* Properties of the failures of a run.                                    *)
(***************************************************************************)
SaveMessageLabels == {CallSaveLabel[c] : c \in AgentCallLabels}

\* C27: a chat-message write that fails during the orchestration aborts the
\* run: the step sends the error event and closes the stream, writes no row
\* and starts no stage; the run has ended with that single error and no
\* done, the stream is closed unless the consumer had left, and the message
\* of the failed write is the last message sent and is not persisted
CoreWriteFailureAborts ==
  /\ []((OrchestrationRun /\ Threw("saveChatMessage")) =>
          /\ RunEnded
          /\ EndsWithError
          /\ Emitted("done") = <<>>
          /\ thrown[Len(thrown)] = "saveChatMessage"
          /\ closed \/ controller = "null"
          /\ Len(MessageEvents) = Len(calls)
          /\ Len(AgentRows) = Len(calls) - 1
          /\ sent[Len(sent) - 1].type = "message")
  /\ [][(pc \in SaveMessageLabels /\ thrown' # thrown) =>
          /\ thrown' = Append(thrown, "saveChatMessage")
          /\ sent' = Append(sent, ErrorEvent("exception"))
          /\ closed' = (closed \/ controller = "open")
          /\ pc' = "ended"
          /\ UNCHANGED <<calls, chat_messages, tables, orch>>]_vars
  /\ [][pc = "ended" => UNCHANGED <<pc, sent, stream, closed, calls, chat_messages>>]_vars

\* a team run whose write of the first reviewer's message failed: two agent
\* calls were made, the primary's message alone is persisted, and the run
\* ended with the error event on a closed stream
CoreWriteFailureAbortsWitness ==
  /\ RunEnded
  /\ req.mode = "team"
  /\ thrown = <<"saveChatMessage">>
  /\ CalledFns = <<"callClaude", "callGPT">>
  /\ Senders(MessageEvents) = <<"claude", "gpt">>
  /\ Senders(AgentRows) = <<"claude">>
  /\ Last(sent).type = "error"
  /\ closed

(***************************************************************************)
(* POST /api/chat handling several requests at once.  Each request has its *)
(* own locals and its own stream (runs); the tables are shared.  A step is *)
(* the code one request runs between two awaits.  The requests carry a     *)
(* conversation_id and no project, and ask for mode solo: a chat message   *)
(* or a "remember" command.  savePreference is two awaits: the lookup of   *)
(* the key, then the update or the insert.                                 *)
(***************************************************************************)
ConcurrentMessages == {MsgDiscuss, MsgSave, MsgSaveAdam}
ConversationOf == [a |-> ExistingConversation, b |-> NewConversation]

\* the variables of the single request of the other specifications
requestVars == <<pc, req, response, post, orch, controller, closed, sent, stream, calls,
                 conversations, thrown, overdue, task, sse, clients, ui>>

Resume(r, next) == runs' = [runs EXCEPT ![r] = next]

\* the request arrives: the body is parsed and validated, getPreferences is
\* awaited
Concurrent_POST(r) ==
  /\ runs[r].pc = "idle"
  /\ \E m \in ConcurrentMessages :
       Resume(r, [runs[r] EXCEPT !.pc = "getPreferences", !.message = m,
                                 !.conversationId = ConversationOf[r]])
  /\ UNCHANGED <<faults, preferences, chat_messages, tables>>
  /\ UNCHANGED requestVars

\* getPreferences returns (the rows, or none on an error); the user's message
\* is written next
Concurrent_getPreferences(r) ==
  /\ runs[r].pc = "getPreferences"
  /\ Resume(r, [runs[r] EXCEPT !.pc = "saveUserMessage"])
  /\ UNCHANGED <<faults, preferences, chat_messages, tables>>
  /\ UNCHANGED requestVars

\* the user's message is written: the command is detected, the stream created
\* and the conversation announced; a "remember" command is parsed and
\* savePreference looks the key up, a chat message awaits the history.  A
\* failed write reaches the catch of POST: 500, no stream
Concurrent_saveChatMessage_user(r) ==
  /\ runs[r].pc = "saveUserMessage"
  /\ \/ /\ chat_messages' = Append(chat_messages,
                                   ChatRow(runs[r].conversationId, "user", runs[r].message))
        /\ LET cmd == detectPreferenceCommand(runs[r].message)
               opened == [runs[r] EXCEPT
                            !.sent = <<ConversationIdEvent(runs[r].conversationId)>>]
           IN IF cmd.type = "save" /\ cmd.content # <<>>
              THEN Resume(r, [opened EXCEPT !.pc = "savePreference_select",
                                            !.parsed = parsePreference(cmd.content)])
              ELSE Resume(r, [opened EXCEPT !.pc = "getConversationHistory"])
     \/ /\ Resume(r, [runs[r] EXCEPT !.pc = "ended", !.response = 500,
                                     !.thrown = Append(@, "saveChatMessage")])
        /\ UNCHANGED chat_messages
  /\ UNCHANGED <<faults, preferences, tables>>
  /\ UNCHANGED requestVars

\* the catch of the command handler, for one of the requests
ConcurrentCommandFailed(r, call) ==
  Resume(r, [runs[r] EXCEPT !.pc = "ended", !.response = 200,
                            !.sent = Append(@, ErrorEvent("preferences")),
                            !.closed = TRUE, !.thrown = Append(@, call)])

\* the number of rows of the table that carry the key
RowsWithKey(rows, key) == Cardinality({i \in 1..Len(rows) : rows[i].key = key})

\* savePreference, first await: the row of the key is looked up (no row is
\* returned when the key is absent, stored more than once, or the query
\* fails); seen records how many rows carried the key at that moment
Concurrent_savePreference_select(r) ==
  /\ runs[r].pc = "savePreference_select"
  /\ \E existing \in savePreferenceLookups(preferences, runs[r].parsed.key) :
       Resume(r, [runs[r] EXCEPT !.pc = "savePreference_write", !.existing = existing,
                                 !.seen = RowsWithKey(preferences, runs[r].parsed.key)])
  /\ UNCHANGED <<faults, preferences, chat_messages, tables>>
  /\ UNCHANGED requestVars

\* a faulty variant of Concurrent_savePreference_write: the row found is not
\* updated, a row is inserted for every save
savePreferenceWriteInserts(r) ==
  /\ runs[r].pc = "savePreference_write"
  /\ \/ /\ preferences' = savePreference(preferences, runs[r].parsed.category,
                                         runs[r].parsed.key, runs[r].parsed.value, 0)
        /\ Resume(r, [runs[r] EXCEPT !.pc = "saveReply",
                                     !.responseMessage = SavedReply(runs[r].parsed),
                                     !.sent = Append(@, MessageEvent("claude",
                                                         SavedReply(runs[r].parsed)))])
     \/ ConcurrentCommandFailed(r, "savePreference") /\ UNCHANGED preferences
  /\ UNCHANGED <<faults, chat_messages, tables>>
  /\ UNCHANGED requestVars

\* savePreference, second await: the row found is updated, or a row is
\* inserted; then the reply is sent and its write awaited
Concurrent_savePreference_write(r) ==
  /\ runs[r].pc = "savePreference_write"
  /\ \/ /\ preferences' = savePreference(preferences, runs[r].parsed.category,
                                         runs[r].parsed.key, runs[r].parsed.value,
                                         runs[r].existing)
        /\ Resume(r, [runs[r] EXCEPT !.pc = "saveReply",
                                     !.responseMessage = SavedReply(runs[r].parsed),
                                     !.sent = Append(@, MessageEvent("claude",
                                                         SavedReply(runs[r].parsed)))])
     \/ ConcurrentCommandFailed(r, "savePreference") /\ UNCHANGED preferences
  /\ UNCHANGED <<faults, chat_messages, tables>>
  /\ UNCHANGED requestVars

\* the reply is written, then done is sent, the stream closed and returned
Concurrent_saveChatMessage_reply(r) ==
  /\ runs[r].pc = "saveReply"
  /\ \/ /\ chat_messages' = Append(chat_messages,
                                   ChatRow(runs[r].conversationId, "claude",
                                           runs[r].responseMessage))
        /\ Resume(r, [runs[r] EXCEPT !.pc = "ended", !.response = 200,
                                     !.sent = Append(@, DoneEvent), !.closed = TRUE])
     \/ ConcurrentCommandFailed(r, "saveChatMessage") /\ UNCHANGED chat_messages
  /\ UNCHANGED <<faults, preferences, tables>>
  /\ UNCHANGED requestVars

\* the history is read: orchestrateAI is called without await, runs to its
\* first await (typing, callClaude), and POST returns the stream
Concurrent_getConversationHistory(r) ==
  /\ runs[r].pc = "getConversationHistory"
  /\ Resume(r, [runs[r] EXCEPT !.pc = "callClaude", !.response = 200,
                               !.sent = Append(@, TypingEvent("claude"))])
  /\ UNCHANGED <<faults, preferences, chat_messages, tables>>
  /\ UNCHANGED requestVars

\* a faulty variant of Concurrent_callClaude: the exception of the primary
\* agent is not caught, and the unhandled rejection ends the process and with
\* it every request in flight
callClaudeUnhandled(r) ==
  /\ runs[r].pc = "callClaude"
  /\ \/ \E result \in AgentResults :
          Resume(r, [runs[r] EXCEPT !.pc = "processAutoSave", !.result = result])
     \/ runs' = [q \in Requests |->
                   IF q = r THEN [runs[q] EXCEPT !.pc = "ended",
                                                 !.thrown = Append(@, "callClaude")]
                   ELSE [runs[q] EXCEPT !.pc = "ended"]]
  /\ UNCHANGED <<faults, preferences, chat_messages, tables>>
  /\ UNCHANGED requestVars

\* callClaude settles: the result is kept and processAutoSave awaited; its
\* exception is caught: error, close, return
Concurrent_callClaude(r) ==
  /\ runs[r].pc = "callClaude"
  /\ \/ \E result \in AgentResults :
          Resume(r, [runs[r] EXCEPT !.pc = "processAutoSave", !.result = result])
     \/ Resume(r, [runs[r] EXCEPT !.pc = "ended", !.sent = Append(@, ErrorEvent("claude")),
                                  !.closed = TRUE, !.thrown = Append(@, "callClaude")])
  /\ UNCHANGED <<faults, preferences, chat_messages, tables>>
  /\ UNCHANGED requestVars

\* processAutoSave settles: the message of the agent is sent and its write
\* awaited
Concurrent_processAutoSave(r) ==
  /\ runs[r].pc = "processAutoSave"
  /\ \E cands \in {SaveCandidates[runs[r].result.content, runs[r].message, "claude", "",
                                  runs[r].result.tokensUsed]} :
     \E failed \in FailureSets(cands) :
     \E saved \in {processAutoSave(cands, tables, failed)} :
       /\ tables' = saved.tables
       /\ faults' = faults + Cardinality(failed)
       /\ Resume(r, [runs[r] EXCEPT !.pc = "saveChatMessage_claude",
                                    !.autoSaved = saved.autoSaved,
                                    !.sent = Append(@, MessageEvent("claude",
                                                        runs[r].result.content))])
  /\ UNCHANGED <<preferences, chat_messages>>
  /\ UNCHANGED requestVars

\* the message of the agent is written: done with the metadata, close; a
\* failed write reaches the outer catch of orchestrateAI: error, close
Concurrent_saveChatMessage_claude(r) ==
  /\ runs[r].pc = "saveChatMessage_claude"
  /\ \/ /\ chat_messages' = Append(chat_messages,
                                   ChatRow(runs[r].conversationId, "claude",
                                           runs[r].result.content))
        /\ Resume(r, [runs[r] EXCEPT
                        !.pc = "ended", !.closed = TRUE,
                        !.sent = Append(@, DoneWithMetadata(
                                   [totalTokens |-> runs[r].result.tokensUsed,
                                    allAutoSaved |-> runs[r].autoSaved]))])
     \/ /\ Resume(r, [runs[r] EXCEPT !.pc = "ended", !.closed = TRUE,
                                     !.sent = Append(@, ErrorEvent("exception")),
                                     !.thrown = Append(@, "saveChatMessage")])
        /\ UNCHANGED chat_messages
  /\ UNCHANGED <<faults, preferences, tables>>
  /\ UNCHANGED requestVars

\* no request has arrived; the preference table is empty or holds a name
ConcurrentInit == Init

ConcurrentNext ==
  \E r \in Requests :
    \/ Concurrent_POST(r)
    \/ Concurrent_getPreferences(r)
    \/ Concurrent_saveChatMessage_user(r)
    \/ Concurrent_savePreference_select(r)
    \/ Concurrent_savePreference_write(r)
    \/ Concurrent_saveChatMessage_reply(r)
    \/ Concurrent_getConversationHistory(r)
    \/ Concurrent_callClaude(r)
    \/ Concurrent_processAutoSave(r)
    \/ Concurrent_saveChatMessage_claude(r)

ConcurrentSpec == ConcurrentInit /\ [][ConcurrentNext]_vars

(***************************************************************************)
(* C28.  A failure is scoped to the run of its request.                    *)
(***************************************************************************)
\* orchestrateAI is running for the request
Orchestrating(r) ==
  runs[r].pc \in {"callClaude", "processAutoSave", "saveChatMessage_claude"}

RowsOfConversation(rows, id) == SelectSeq(rows, LAMBDA row : row.conversation_id = id)

\* C28: whatever an awaited call of the background orchestration throws, no
\* exception leaves the orchestration task: the answer POST returned stands,
\* the exception ends the run of its own request with one error event and the
\* close of its own stream, and the step changes neither the locals nor the
\* stream nor the conversation of another request; a request none of whose
\* own calls threw ends with done whatever the requests beside it met.
FailureScopedToRun ==
  /\ [][\A r \in Requests :
          (Orchestrating(r) /\ runs'[r] # runs[r]) =>
            /\ runs'[r].response = 200
            /\ runs'[r].thrown # runs[r].thrown =>
                 /\ runs'[r].pc = "ended"
                 /\ runs'[r].closed
                 /\ runs'[r].sent = Append(runs[r].sent, Last(runs'[r].sent))
                 /\ Last(runs'[r].sent).type = "error"
                 /\ UNCHANGED <<chat_messages, tables>>
            /\ \A q \in Requests \ {r} :
                 /\ runs'[q] = runs[q]
                 /\ RowsOfConversation(chat_messages', ConversationOf[q])
                      = RowsOfConversation(chat_messages, ConversationOf[q])
            /\ UNCHANGED preferences]_vars
  /\ [](\A r \in Requests :
          (runs[r].pc = "ended" /\ runs[r].thrown = <<>> /\ runs[r].message = MsgDiscuss) =>
            /\ Types(runs[r].sent) = <<"conversation_id", "typing", "message", "done">>
            /\ Senders(RowsOfConversation(chat_messages, ConversationOf[r]))
                 = <<"user", "claude">>)

\* the run of request a failed in callClaude while the run of request b,
\* whose message was written first, is in flight; b then ends with done
FailureScopedToRunWitness ==
  /\ runs["a"].pc = "ended"
  /\ runs["a"].thrown = <<"callClaude">>
  /\ Last(runs["a"].sent).type = "error"
  /\ runs["b"].pc = "ended"
  /\ runs["b"].thrown = <<>>
  /\ Last(runs["b"].sent).type = "done"
  /\ Senders(chat_messages) = <<"user", "user", "claude">>
  /\ chat_messages[1].conversation_id = ConversationOf["b"]

(***************************************************************************)
(* C29.  The mode and the senders of a run.  POST rejects a missing mode   *)
(* only (route.ts:746), so that a body can carry any other text as mode;   *)
(* orchestrateAI compares mode with 'solo' and with 'duo' and runs the     *)
(* remaining stages otherwise.                                             *)
(***************************************************************************)
\* the modes a body can carry past the validation: the three modes of the
\* selector, and a text that is none of them
UnknownMode == "quad"
AnyModes == (Modes \ {""}) \cup {UnknownMode}

\* a chat request without a project, in any mode, whose user message has been
\* written and whose stream has been created
ModeInit ==
  /\ pc = "getConversationHistory"
  /\ req \in {[message |-> MsgDiscuss, mode |-> m,
               conversation_id |-> ExistingConversation, project_id |-> ""] :
                m \in AnyModes}
  /\ post = [InitPost EXCEPT !.conversationId = ExistingConversation]
  /\ controller = "open"
  /\ sent = <<ConversationIdEvent(ExistingConversation)>>
  /\ stream = <<ConversationIdEvent(ExistingConversation)>>
  /\ chat_messages = <<ChatRow(ExistingConversation, "user", MsgDiscuss)>>
  /\ faults = 0
  /\ response = 0
  /\ orch = InitOrch
  /\ closed = FALSE
  /\ calls = <<>>
  /\ preferences = <<>>
  /\ conversations = <<>>
  /\ tables = [llm_responses |-> <<>>, decisions |-> <<>>, bugs_history |-> <<>>,
               prompts |-> <<>>, project_rules |-> <<>>, tech_stack |-> <<>>]
  /\ thrown = <<>>
  /\ overdue = FALSE
  /\ task = "none"
  /\ sse = InitSse
  /\ runs = InitRuns
  /\ clients = InitClients
  /\ ui = InitUi

ModeNext == Persisting \/ AgentSettles \/ Cancel

ModeSpec == ModeInit /\ [][ModeNext]_vars

\* the senders of the typing events, message events and agent rows of the run
RunSenders ==
  {StageEvents[i].sender : i \in 1..Len(StageEvents)}
    \cup {AgentRows[i].sender : i \in 1..Len(AgentRows)}

ModeBoundsSenders ==
  /\ req.mode = "solo" => RunSenders \subseteq {"claude"}
  /\ req.mode = "duo" => RunSenders \subseteq {"claude", "gpt"}
  /\ RunSenders \subseteq {"claude", "gpt", "gemini"}
  /\ "gemini" \in RunSenders => req.mode \notin {"solo", "duo"}

\* a run in a mode that is none of the three has ended with done, with the
\* four messages of a team run sent and persisted
ModeBoundsSendersWitness ==
  /\ req.mode = UnknownMode
  /\ RunEnded
  /\ EndsWithDone
  /\ Senders(MessageEvents) = TeamSenders
  /\ Senders(AgentRows) = TeamSenders

(***************************************************************************)
(* C30.  The keys of the preference table under concurrent saves.  No      *)
(* constraint on the table is part of the sources: savePreference reads    *)
(* the row of the key and then updates it or inserts one.                  *)
(***************************************************************************)
UniqueKeys(rows) == \A i, j \in 1..Len(rows) : rows[i].key = rows[j].key => i = j

\* the request has passed the lookup of savePreference
LookedUp(r) == runs[r].parsed.key # <<>> /\ runs[r].pc # "savePreference_select"
\* the lookup returned the row of the key when the table had one
LookupFound(r) == LookedUp(r) => (runs[r].seen = 0 \/ runs[r].existing # 0)
\* two saves of one key overlap: each looked the key up before the other wrote
SavesOverlap ==
  \E r, q \in Requests :
    /\ r # q
    /\ LookedUp(r) /\ LookedUp(q)
    /\ runs[r].parsed.key = runs[q].parsed.key
    /\ runs[r].seen = 0 /\ runs[q].seen = 0

\* C30: in every reachable state of the preference table, with concurrent
\* saves of one key interleaved, a key is stored at most once (stated for the
\* saves whose lookup returned the row the table had for the key, so that a
\* violation is one of the interleaving alone).
OneRecordPerKey ==
  (\A r \in Requests : LookupFound(r)) => UniqueKeys(preferences)

\* what the code does guarantee: a key is stored at most once as long as
\* every lookup returned the row its key had and no two saves of one key
\* overlapped; the table is free of duplicates by the order of the saves, not
\* by a property of savePreference.
OneRecordPerKeyWhenSerial ==
  ((\A r \in Requests : LookupFound(r)) /\ ~SavesOverlap) => UniqueKeys(preferences)

\* both requests saved the key name into an empty table, one after the other:
\* the second found the row of the first and updated it
OneRecordPerKeyWhenSerialWitness ==
  /\ \A r \in Requests : runs[r].pc = "ended" /\ runs[r].thrown = <<>>
  /\ runs["a"].message = MsgSave /\ runs["a"].seen = 0 /\ runs["a"].existing = 0
  /\ runs["b"].message = MsgSaveAdam /\ runs["b"].seen = 1 /\ runs["b"].existing = 1
  /\ Len(preferences) = 1
  /\ preferences[1].value = parsePreference(detectPreferenceCommand(MsgSaveAdam).content).value

(***************************************************************************)
(* lib/ai: the agent clients.  Each module keeps its client in a variable, *)
(* null until the first call; every call function obtains the client from  *)
(* the module's getter and awaits the provider.  The getter has no await:  *)
(* its test and its assignment are one step.  Runs call the agents in any  *)
(* order here, one call at a time each.                                    *)
(***************************************************************************)
MaxAgentCalls == 2

\* the client variable each call function reads
ClientOf ==
  [callClaude |-> "anthropicClient", callClaudeSummary |-> "anthropicClient",
   callClaudeFinal |-> "anthropicClient", callGPT |-> "openaiClient",
   callGemini |-> "genaiClient"]
AgentFns == DOMAIN ClientOf

\* a faulty variant of lazyClient: the client is built on every call
eagerClient(cl, field) ==
  [cl EXCEPT ![field] = cl.constructed[field] + 1, !.constructed[field] = @ + 1]

\* getAnthropic, getOpenAI, getGenAI: build the client if the variable is
\* null (instances are numbered in the order of construction), return it
lazyClient(cl, field) ==
  IF cl[field] = 0
  THEN [cl EXCEPT ![field] = cl.constructed[field] + 1, !.constructed[field] = @ + 1]
  ELSE cl

getAnthropic(cl) == lazyClient(cl, "anthropicClient")
getOpenAI(cl) == lazyClient(cl, "openaiClient")
getGenAI(cl) == lazyClient(cl, "genaiClient")

getClient(cl, fn) ==
  CASE ClientOf[fn] = "anthropicClient" -> getAnthropic(cl)
    [] ClientOf[fn] = "openaiClient" -> getOpenAI(cl)
    [] ClientOf[fn] = "genaiClient" -> getGenAI(cl)

allButClients == <<pc, faults, req, response, post, orch, controller, closed, sent, stream,
                   calls, preferences, chat_messages, conversations, tables, thrown, overdue,
                   task, sse, runs, ui>>

\* a run calls an agent: the call function obtains the client and awaits the
\* provider's answer on it
Client_call(r, fn) ==
  /\ clients.pending[r] = "none"
  /\ Len(clients.used[r]) < MaxAgentCalls
  /\ LET got == getClient(clients, fn)
     IN clients' = [got EXCEPT !.pending[r] = fn,
                               !.used[r] = Append(@, [fn |-> fn, client |-> got[ClientOf[fn]]])]
  /\ UNCHANGED allButClients

\* the provider answers or fails: the call function returns or throws
Client_settle(r) ==
  /\ clients.pending[r] # "none"
  /\ clients' = [clients EXCEPT !.pending[r] = "none"]
  /\ UNCHANGED allButClients

ClientNext ==
  \E r \in Requests :
    \/ \E fn \in AgentFns : Client_call(r, fn)
    \/ Client_settle(r)

ClientSpec == Init /\ [][ClientNext]_vars

(***************************************************************************)
(* C31.  The agent clients are singletons of the process.                  *)
(***************************************************************************)
ClientFields == {"anthropicClient", "openaiClient", "genaiClient"}

\* C31: over any interleaving of the calls of concurrent runs, the client of
\* each agent is constructed at most once, it is constructed only by a call
\* that finds none, and every call of every run uses that one instance, which
\* is never replaced.
ClientIsSingleton ==
  /\ [](\A f \in ClientFields :
          /\ clients.constructed[f] <= 1
          /\ clients[f] = clients.constructed[f])
  /\ [](\A r \in Requests : \A i \in 1..Len(clients.used[r]) :
          LET u == clients.used[r][i]
          IN u.client # 0 /\ u.client = clients[ClientOf[u.fn]])
  /\ [][\A f \in ClientFields : clients[f] # 0 => clients'[f] = clients[f]]_vars

\* both runs have a call to claude in flight at once, after run a has called
\* gpt; the two calls to claude share the one instance
ClientIsSingletonWitness ==
  /\ clients.pending["a"] = "callClaude"
  /\ clients.pending["b"] = "callClaudeFinal"
  /\ clients.used["a"][1].fn = "callGPT"
  /\ clients.used["a"][2].client = clients.used["b"][1].client
  /\ clients.constructed = [anthropicClient |-> 1, openaiClient |-> 1, genaiClient |-> 0]

(***************************************************************************)
(* C32.  The agent calls of a run are sequential and chained.              *)
(***************************************************************************)
\* the responses a call is handed, by the number of stages before it
HandedResponses(c) == <<c.claudeResponse, c.gptResponse, c.geminiResponse>>
StagesBefore ==
  [callClaude |-> 0, callGPT |-> 1, callClaudeSummary |-> 2, callGemini |-> 2,
   callClaudeFinal |-> 3]

\* C32: in an orchestration run at most one agent call is in flight: a call is
\* made only in a step in which none is awaited, one at a time, and it is the
\* call the run then awaits.  Each call is handed the responses of the stages
\* before it, as they were sent in the message events: callGPT the primary's,
\* callGemini and callClaudeSummary the primary's and the first reviewer's,
\* callClaudeFinal these and the second reviewer's; the response of a stage
\* whose call threw is its fallback text.
CallsSequentialAndChained ==
  /\ [][calls' # calls =>
          /\ pc \notin AgentCallLabels
          /\ calls' = Append(calls, Last(calls'))
          /\ pc' = Last(calls').fn]_vars
  /\ [](pc \in AgentCallLabels => (calls # <<>> /\ Last(calls).fn = pc))
  /\ [](\A i \in 1..Len(calls) :
          LET n == StagesBefore[calls[i].fn]
          IN /\ Len(MessageEvents) >= n
             /\ \A k \in 1..3 :
                  HandedResponses(calls[i])[k]
                    = IF k <= n THEN MessageEvents[k].content ELSE <<>>
             /\ (n >= 2 /\ Threw("callGPT")) => calls[i].gptResponse = GptFallback
             /\ (n >= 3 /\ Threw("callGemini")) => calls[i].geminiResponse = GeminiFallback)

\* a team run in which callGPT threw has ended: callGemini was handed the
\* fallback text of the first reviewer, and callClaudeFinal that text and the
\* response of the second
CallsSequentialAndChainedWitness ==
  /\ req.mode = "team"
  /\ RunEnded
  /\ thrown = <<"callGPT">>
  /\ CalledFns = TeamCalls
  /\ calls[3].gptResponse = GptFallback
  /\ calls[4].gptResponse = GptFallback
  /\ calls[4].geminiResponse = orch.geminiResponse
  /\ orch.geminiResponse \notin Fallbacks

(***************************************************************************)
(* C33.  The generate classification and the instruction suffix.           *)
(***************************************************************************)
\* a chat request without a project, with or without a trigger phrase, which
\* awaits the write of the user's message
GenerateInit ==
  /\ pc = "saveUserMessage"
  /\ req \in {[message |-> m, mode |-> mode, conversation_id |-> ExistingConversation,
               project_id |-> ""] : m \in GenerateTexts, mode \in Modes \ {""}}
  /\ post = [InitPost EXCEPT !.conversationId = ExistingConversation]
  /\ controller = "unset"
  /\ sent = <<>>
  /\ stream = <<>>
  /\ chat_messages = <<>>
  /\ faults = 0
  /\ response = 0
  /\ orch = InitOrch
  /\ closed = FALSE
  /\ calls = <<>>
  /\ preferences = <<>>
  /\ conversations = <<>>
  /\ tables = [llm_responses |-> <<>>, decisions |-> <<>>, bugs_history |-> <<>>,
               prompts |-> <<>>, project_rules |-> <<>>, tech_stack |-> <<>>]
  /\ thrown = <<>>
  /\ overdue = FALSE
  /\ task = "none"
  /\ sse = InitSse
  /\ runs = InitRuns
  /\ clients = InitClients
  /\ ui = InitUi

GenerateNext == POST_saveChatMessage_user \/ Persisting \/ AgentSettles

GenerateSpec == GenerateInit /\ [][GenerateNext]_vars

\* the message holds the phrase at some position, letters compared in lower case
HoldsPhrase(message, phrase) ==
  \E p \in 0..(Len(message) - Len(phrase)) :
    \A k \in 1..Len(phrase) : ToLowerChar(message[p + k]) = phrase[k]
HoldsTrigger(message) ==
  \E i \in 1..Len(GENERATE_TRIGGERS) : HoldsPhrase(message, GENERATE_TRIGGERS[i])

\* C33: the message is classified generate exactly when it holds one of the
\* trigger phrases, compared without regard to case; the primary call is
\* handed the message with the instruction suffix for generate and the
\* message itself for discuss; every later call is handed the message itself,
\* and so is the row written for the user.
SuffixForPrimaryOnly ==
  /\ isGenerateAction(req.message) <=> HoldsTrigger(req.message)
  /\ \A i \in 1..Len(calls) :
       calls[i].message =
         IF i = 1 /\ HoldsTrigger(req.message) THEN req.message \o GenerateSuffix
         ELSE req.message
  /\ \A i \in 1..Len(chat_messages) :
       chat_messages[i].sender = "user" => chat_messages[i].content = req.message

\* a team run for "NAPISZ KOD" has ended: the primary call alone carried the
\* suffix
SuffixForPrimaryOnlyWitness ==
  /\ req.message = MsgGenerateUpper
  /\ req.mode = "team"
  /\ RunEnded
  /\ CalledFns = TeamCalls
  /\ calls[1].message = MsgGenerateUpper \o GenerateSuffix
  /\ calls[4].message = MsgGenerateUpper
  /\ chat_messages[1] = ChatRow(ExistingConversation, "user", MsgGenerateUpper)

(***************************************************************************)
(* C34.  The rows of the conversation and the message events.              *)
(***************************************************************************)
\* C34: the rows a request writes to chat_messages are the user's message
\* followed by the agent messages, each with the sender and content of the
\* message event of the same rank; the user's row is there before any event
\* is sent and before any agent is called; a request that ends with done has
\* written a row for every message event; a row once written is neither
\* changed nor moved.
RowsFollowMessageEvents ==
  /\ []((sent # <<>> \/ calls # <<>>) =>
          (chat_messages # <<>>
             /\ chat_messages[1] = ChatRow(post.conversationId, "user", req.message)))
  /\ [](\A i \in 2..Len(chat_messages) :
          /\ i - 1 <= Len(MessageEvents)
          /\ chat_messages[i] = ChatRow(post.conversationId, MessageEvents[i - 1].sender,
                                        MessageEvents[i - 1].content))
  /\ []((RunEnded /\ sent # <<>> /\ Last(sent).type = "done") =>
          Len(chat_messages) = Len(MessageEvents) + 1)
  /\ [][IsPrefix(chat_messages, chat_messages')
          /\ Len(chat_messages') <= Len(chat_messages) + 1]_vars

\* a duo run in which callGPT threw has ended with done: four rows, the
\* user's, the primary's, the fallback text of gpt and the summary
RowsFollowMessageEventsWitness ==
  /\ req.mode = "duo"
  /\ RunEnded
  /\ EndsWithDone
  /\ thrown = <<"callGPT">>
  /\ Senders(chat_messages) = <<"user", "claude", "gpt", "claude">>
  /\ chat_messages[3].content = GptFallback
  /\ chat_messages[4].content = orch.claudeSummary
  /\ orch.claudeSummary # orch.claudeResponse

(***************************************************************************)
(* useChat.sendMessage, the consumer of the stream of POST /api/chat.  It  *)
(* posts the message and reads the body of the response to its end; every  *)
(* data line is parsed and handled by its type.  The frames are those the  *)
(* response body delivers: any events, in any order, then the end.         *)
(***************************************************************************)
MaxFrames == 3

allButUi == <<pc, faults, req, response, post, orch, controller, closed, sent, stream,
              calls, preferences, chat_messages, conversations, tables, thrown, overdue,
              task, sse, runs, clients>>

\* the events a frame can carry
Frames ==
  {ConversationIdEvent(ExistingConversation), TypingEvent("claude"), TypingEvent("gpt"),
   MessageEvent("claude", TextPlain), MessageEvent("gpt", TextPlain), DoneEvent,
   ErrorEvent("exception")}

\* getTypingQueue: the agents still to come after the one typing, by mode
getTypingQueue(mode, current) ==
  LET queue == CASE mode = "solo" -> <<>>
                 [] mode = "duo" -> IF current = "claude" THEN <<"gpt", "claude">>
                                    ELSE <<"claude">>
                 [] mode = "team" -> IF current = "claude" THEN <<"gpt", "gemini", "claude">>
                                     ELSE IF current = "gpt" THEN <<"gemini", "claude">>
                                     ELSE <<"claude">>
  IN SelectSeq(queue, LAMBDA a : a # current)

\* a faulty variant of handleEvent: done leaves the typing state as it is
handleEventKeepsTyping(u, event) ==
  CASE event.type = "conversation_id" -> [u EXCEPT !.conversationId = event.id]
    [] event.type = "typing" ->
         [u EXCEPT !.currentlyTyping = event.sender,
                   !.typingQueue = getTypingQueue(u.mode, event.sender)]
    [] event.type = "message" ->
         [u EXCEPT !.messages = Append(@, [sender |-> event.sender, content |-> event.content]),
                   !.currentlyTyping = "null"]
    [] event.type = "done" -> [u EXCEPT !.isLoading = FALSE]
    [] event.type = "error" ->
         [u EXCEPT !.error = event.error, !.currentlyTyping = "null",
                   !.typingQueue = <<>>, !.isLoading = FALSE]

\* the switch on the type of a parsed event
handleEvent(u, event) ==
  CASE event.type = "conversation_id" ->
         IF event.id # 0 THEN [u EXCEPT !.conversationId = event.id] ELSE u
    [] event.type = "typing" ->
         IF event.sender \notin {"", "user"}
         THEN [u EXCEPT !.currentlyTyping = event.sender,
                        !.typingQueue = getTypingQueue(u.mode, event.sender)]
         ELSE u
    [] event.type = "message" ->
         IF event.sender # "" /\ event.content # <<>>
         THEN [u EXCEPT !.messages = Append(@, [sender |-> event.sender,
                                                content |-> event.content]),
                        !.currentlyTyping = "null"]
         ELSE u
    [] event.type = "done" ->
         [u EXCEPT !.currentlyTyping = "null", !.typingQueue = <<>>, !.isLoading = FALSE]
    [] event.type = "error" ->
         [u EXCEPT !.error = event.error, !.currentlyTyping = "null",
                   !.typingQueue = <<>>, !.isLoading = FALSE]

\* sendMessage is called: loading, the user's message is shown, the request
\* is posted
sendMessage ==
  /\ ui.pc = "idle"
  /\ \E mode \in Modes \ {""} :
       ui' = [ui EXCEPT !.pc = "fetch", !.mode = mode, !.isLoading = TRUE, !.error = "",
                        !.messages = Append(@, [sender |-> "user", content |-> MsgDiscuss])]
  /\ UNCHANGED allButUi

\* fetch settles: a response that is not ok, or a rejected fetch, is thrown to
\* the catch, then finally; else the body is read
sendMessage_fetch ==
  /\ ui.pc = "fetch"
  /\ \/ ui' = [ui EXCEPT !.pc = "read"]
     \/ ui' = [ui EXCEPT !.pc = "returned", !.error = "HTTP error",
                         !.currentlyTyping = "null", !.typingQueue = <<>>,
                         !.isLoading = FALSE]
  /\ UNCHANGED allButUi

\* reader.read() settles: a frame is handled and the next read awaited, or the
\* body has ended: finally, and sendMessage returns
sendMessage_read ==
  /\ ui.pc = "read"
  /\ \/ /\ Len(ui.received) < MaxFrames
        /\ \E event \in Frames :
             ui' = [handleEvent(ui, event) EXCEPT !.received = Append(@, event)]
     \/ ui' = [ui EXCEPT !.pc = "returned", !.isLoading = FALSE]
  /\ UNCHANGED allButUi

ConsumerNext == sendMessage \/ sendMessage_fetch \/ sendMessage_read

ConsumerSpec == Init /\ [][ConsumerNext]_vars

(***************************************************************************)
(* C35.  done and error as the end of the stream, for the consumer.        *)
(***************************************************************************)
\* the consumer has handled a done or an error event
EndHandled ==
  \E i \in 1..Len(ui.received) : ui.received[i].type \in {"done", "error"}
UiIdle == ui.currentlyTyping = "null" /\ ui.typingQueue = <<>> /\ ~ui.isLoading

IdleAfterEnd ==
  (ui.received # <<>> /\ Last(ui.received).type \in {"done", "error"}) => UiIdle

\* done has just been handled after a typing event in a team run
IdleAfterEndWitness ==
  /\ ui.mode = "team"
  /\ Types(ui.received) = <<"typing", "message", "done">>
  /\ UiIdle

(***************************************************************************)
(* C36.  A failure of the summary call or of the final call.               *)
(***************************************************************************)
LastStageThrew == Threw("callClaudeSummary") \/ Threw("callClaudeFinal")
LastStageFallback ==
  IF Threw("callClaudeSummary") THEN SummaryFallback ELSE FinalFallback

ProjectTables == {"decisions", "bugs_history", "prompts", "project_rules", "tech_stack"}

\* C37: when the request names no project, processAutoSave writes no
\* decision, bug, prompt, rule or tech record, whatever kinds the response
\* shows; the row of llm_responses is the only row written, and the only one
\* the metadata refers to
NoProjectOnlyLogsResponse ==
  (AutoSaveApplied /\ req.project_id = "") =>
    /\ \A t \in ProjectTables : tables[t] = <<>>
    /\ Len(tables.llm_responses) <= 1
    /\ Len(orch.allAutoSaved) = Len(tables.llm_responses)
    /\ \A i \in 1..Len(orch.allAutoSaved) :
         /\ orch.allAutoSaved[i].table = "llm_responses"
         /\ orch.allAutoSaved[i].id = i

\* a response showing a decision and a technology is logged for no project
NoProjectOnlyLogsResponseWitness ==
  /\ AutoSaveApplied
  /\ req.project_id = ""
  /\ IsDetected("decision")
  /\ IsDetected("tech")
  /\ Len(tables.llm_responses) = 1
  /\ Len(orch.allAutoSaved) = 1

(***************************************************************************)
(* Sequential runs of auto-save on the tables of the projects.             *)
(***************************************************************************)
\* runs of processAutoSave, one after the other
MaxRuns == 3

RunProjects == {"p1", "p2"}
SeRuleAlways == <<"z", "a", "w", "s", "z", "e", " ", "t", "e", "s", "t", "u", "j">>
SeTechUpper == <<"S", "t", "a", "c", "k", " ", "R", "E", "A", "C", "T">>
SeTechVue == <<"s", "t", "a", "c", "k", " ", "v", "u", "e">>
RunTexts == {SeRuleNever, SeRuleAlways, SeTech, SeTechUpper, SeTechVue}

DedupTables == {"project_rules", "tech_stack"}

\* the attempts of a call whose lookup fails: saves of a rule or a technology
\* that are not in failed, within the failures of the model
LookupFailures(cands, failed) ==
  {b \in SUBSET {k \in 1..Len(cands) : cands[k].table \in DedupTables /\ k \notin failed} :
     faults + Cardinality(failed) + Cardinality(b) <= MaxSaveFailures}

\* one run: an agent answers a request of a project, and processAutoSave is
\* awaited with the answer; the run's metadata are the references it returns
Run_processAutoSave ==
  /\ pc \in {"idle", "autoSaved"}
  /\ Len(calls) < MaxRuns
  /\ \E p \in RunProjects, t \in RunTexts :
     \E cands \in {AutoSaveCandidates(t, MsgDiscuss, "claude", p, 0)} :
     \E failed \in FailureSets(cands) :
     \E blind \in LookupFailures(cands, failed) :
     \E r \in {ApplySavesBlind(cands, 1, tables, <<>>, failed, blind)} :
       /\ req' = [NoRequest EXCEPT !.message = MsgDiscuss, !.project_id = p]
       /\ orch' = [InitOrch EXCEPT !.claudeResponse = t,
                                   !.result = [content |-> t, tokensUsed |-> 0],
                                   !.allAutoSaved = r.autoSaved]
       /\ tables' = r.tables
       /\ faults' = faults + Cardinality(failed) + Cardinality(blind)
       /\ calls' = Append(calls, Call("callClaude", MsgDiscuss, <<>>, <<>>, <<>>))
  /\ pc' = "autoSaved"
  /\ UNCHANGED <<response, post, controller, closed, sent, stream, preferences,
                 chat_messages, conversations, thrown>>
  /\ UNCHANGED streamVars

RunsNext == Run_processAutoSave

RunsSpec == Init /\ [][RunsNext]_vars

\* two rows of a table hold the same rule of a project, or the same
\* technology of a project up to the case of its name
SameRecord(table, a, b) ==
  /\ a.project_id = b.project_id
  /\ IF table = "project_rules" THEN a.rule = b.rule
     ELSE ToLowerCase(a.name) = ToLowerCase(b.name)

RecordsUnique(tbl) ==
  \A table \in DedupTables :
    \A i, j \in 1..Len(tbl[table]) :
      SameRecord(table, tbl[table][i], tbl[table][j]) => i = j

\* every rule or tech reference of the run's metadata is to a row that no
\* earlier row of the table equals
ReferencesAreNew ==
  \A n \in 1..Len(orch.allAutoSaved) :
    LET ref == orch.allAutoSaved[n]
    IN ref.table \in DedupTables =>
         \A j \in 1..(ref.id - 1) :
           ~SameRecord(ref.table, tables[ref.table][j], tables[ref.table][ref.id])

\* C38: after any sequence of sequential runs a project holds at most one
\* rule record per rule text and at most one tech record per technology name
\* compared without regard to case, and a run's metadata refer to no rule or
\* tech item that was stored before
RuleAndTechDeduplicated == RecordsUnique(tables) /\ ReferencesAreNew

\* what the code does guarantee for C38: records are unique and references
\* new as long as no save and no lookup has failed
DeduplicatedWhenLookupsAnswered == faults = 0 => RuleAndTechDeduplicated

\* the third run of a project repeats the rule or the technology of an
\* earlier run, and adds no rule or tech row and no reference to one
DeduplicatedWhenLookupsAnsweredWitness ==
  /\ pc = "autoSaved"
  /\ faults = 0
  /\ Len(calls) = MaxRuns
  /\ Len(tables.project_rules) = 1
  /\ Len(tables.tech_stack) = 1
  /\ tables.project_rules[1].project_id = tables.tech_stack[1].project_id
  /\ Len(tables.llm_responses) = MaxRuns
  /\ Len(orch.allAutoSaved) = 1
====
